---- MODULE Spec2Model ----
(***************************************************************************)
(* A model of baize's multipart/form-data decoder (baize/multipart.py),    *)
(* of the form assembler that drives it (baize/multipart_helper.py) and of *)
(* the Range header parser (baize/responses.py).                           *)
(*                                                                         *)
(* Bytes.  A byte string is a sequence of symbols.  CR, LF, DASH, SP, XCH  *)
(* and BCH are single bytes ("\r", "\n", "-", a space or tab, a byte with  *)
(* no special meaning, and the one byte of the boundary b"b").  The text   *)
(* of one header line holds no line break, so the decoder, which in        *)
(* State.PART only looks for line breaks, treats it as a unit; it is one   *)
(* symbol:                                                                 *)
(*   "Fa", "Fb"   Content-Disposition: form-data; name="a"   (or "b")      *)
(*   "Ua", "Ub"   Content-Disposition: form-data; name="a"; filename="f"   *)
(*   "O"          X-Other: v                                               *)
(***************************************************************************)
EXTENDS Integers, Sequences, FiniteSets, TLC

CR == "CR"
LF == "LF"
DASH == "-"
SP == " "
XCH == "x"
BCH == "b"

\* the boundary handed to MultipartDecoder(boundary, charset)
boundary == <<BCH>>

FieldHeader == {"Fa", "Fb"}
FileHeader == {"Ua", "Ub"}
OtherHeader == {"O"}
HeaderSym == FieldHeader \cup FileHeader \cup OtherHeader

\* the name="..." parameter written in a Content-Disposition symbol
NameIn(h) == IF h \in {"Fa", "Ua"} THEN "a" ELSE "b"

Min(a, b) == IF a < b THEN a ELSE b
Max(a, b) == IF a > b THEN a ELSE b

\* s[i..], s[..n] with Python's slice conventions on 1-based sequences
From(s, i) == SubSeq(s, i, Len(s))
Upto(s, n) == SubSeq(s, 1, n)

\* bytes t occur in s at (1-based) position i
StartsAt(s, i, t) ==
    /\ i >= 1
    /\ i + Len(t) - 1 <= Len(s)
    /\ \A j \in 1..Len(t) : s[i + j - 1] = t[j]

\* LINE_BREAK = (?:\r\n|\n|\r) tried at position i: the length it matches
LINE_BREAK(s, i) ==
    IF i > Len(s) THEN 0
    ELSE IF s[i] = CR /\ i + 1 <= Len(s) /\ s[i + 1] = LF THEN 2
    ELSE IF s[i] = LF \/ s[i] = CR THEN 1
    ELSE 0

\* [^\S\n\r]* tried at position i (greedy): the first position after the run
RECURSIVE Whitespace(_, _)
Whitespace(s, i) ==
    IF i <= Len(s) /\ s[i] = SP THEN Whitespace(s, i + 1) ELSE i

\* the group (--[^\S\n\r]*LINE_BREAK?|[^\S\n\r]*LINE_BREAK) tried at position j
\* k is the position after the white space, closing tells the alternative
BoundaryTailAt(s, k, closing) ==
    [ok |-> closing \/ LINE_BREAK(s, k) > 0, end |-> k + LINE_BREAK(s, k),
     closing |-> closing]

BoundaryTail(s, j) ==
    IF StartsAt(s, j, <<DASH, DASH>>)
    THEN BoundaryTailAt(s, Whitespace(s, j + 2), TRUE)
    ELSE BoundaryTailAt(s, Whitespace(s, j), FALSE)

\* LINE_BREAK(?)--boundary(group) tried at position i.  start, end are the
\* 0-based match.start() and match.end()
NoMatch == [ok |-> FALSE, start |-> 0, end |-> 0, closing |-> FALSE]

\* --boundary(group) tried at position j, for a match that begins at i
DelimiterFrom(s, i, j) ==
    IF StartsAt(s, j, <<DASH, DASH>> \o boundary)
    THEN BoundaryTail(s, j + 2 + Len(boundary))
    ELSE NoMatch

\* the match object of the first alternative that matched
Match(i, withBreak, noBreak) ==
    IF withBreak.ok
    THEN [ok |-> TRUE, start |-> i - 1, end |-> withBreak.end - 1,
          closing |-> withBreak.closing]
    ELSE IF noBreak.ok
    THEN [ok |-> TRUE, start |-> i - 1, end |-> noBreak.end - 1,
          closing |-> noBreak.closing]
    ELSE NoMatch

DelimiterAt(s, i, optional_break) ==
    Match(i,
          IF LINE_BREAK(s, i) > 0 THEN DelimiterFrom(s, i, i + LINE_BREAK(s, i))
          ELSE NoMatch,
          IF optional_break THEN DelimiterFrom(s, i, i) ELSE NoMatch)

\* the first match, if any, else the second
OrElse(m, n) == IF m.ok THEN m ELSE n

\* re.search from position i on: the leftmost position at which the pattern
\* matches
RECURSIVE DelimiterSearch(_, _, _)
DelimiterSearch(s, i, optional_break) ==
    IF i > Len(s) THEN NoMatch
    ELSE OrElse(DelimiterAt(s, i, optional_break),
                DelimiterSearch(s, i + 1, optional_break))

preamble_re(s) == DelimiterSearch(s, 1, TRUE)

boundary_re(s) == DelimiterSearch(s, 1, FALSE)

\* BLANK_LINE_RE = (?:\r\n\r\n|\r\r|\n\n) tried at position i: length matched
BlankLineAt(s, i) ==
    IF StartsAt(s, i, <<CR, LF, CR, LF>>) THEN 4
    ELSE IF StartsAt(s, i, <<CR, CR>>) \/ StartsAt(s, i, <<LF, LF>>) THEN 2
    ELSE 0

RECURSIVE BlankLineSearch(_, _)
BlankLineSearch(s, i) ==
    IF i > Len(s) THEN NoMatch
    ELSE IF BlankLineAt(s, i) > 0
    THEN [ok |-> TRUE, start |-> i - 1, end |-> i - 1 + BlankLineAt(s, i),
          closing |-> FALSE]
    ELSE BlankLineSearch(s, i + 1)

BLANK_LINE_RE(s) == BlankLineSearch(s, 1)

\* bytearray.find(b"--" + boundary) != -1
HasDelimiter(s) ==
    \E i \in 1..Len(s) : StartsAt(s, i, <<DASH, DASH>> \o boundary)

\* bytearray.rindex(c), or len(buffer) when c does not occur (0-based)
RIndexOrLen(s, c) ==
    LET hits == {i \in 1..Len(s) : s[i] = c}
    IN  IF hits = {} THEN Len(s)
        ELSE (CHOOSE i \in hits : \A j \in hits : i >= j) - 1

\* a variant of last_newline that takes the later of the two positions
last_newline_later(s) == Max(RIndexOrLen(s, LF), RIndexOrLen(s, CR))

last_newline(s) == Min(RIndexOrLen(s, LF), RIndexOrLen(s, CR))


(***************************************************************************)
(* Events and header parsing                                               *)
(***************************************************************************)
Event(type, data, more_data, name, filename, headers) ==
    [type |-> type, data |-> data, more_data |-> more_data, name |-> name,
     filename |-> filename, headers |-> headers]

NEED_DATA == Event("NeedData", <<>>, FALSE, <<>>, <<>>, <<>>)
Preamble(data) == Event("Preamble", data, FALSE, <<>>, <<>>, <<>>)
Field(name, headers) == Event("Field", <<>>, FALSE, name, <<>>, headers)
File(name, filename, headers) == Event("File", <<>>, FALSE, name, filename, headers)
Data(data, more_data) == Event("Data", data, more_data, <<>>, <<>>, <<>>)
Epilogue(data) == Event("Epilogue", data, FALSE, <<>>, <<>>, <<>>)
\* an exception leaving next_event, written as the call's outcome
Raise(exc) == Event(exc, <<>>, FALSE, <<>>, <<>>, <<>>)

\* HEADER_CONTINUATION_RE.sub(b" ", data): a line break followed by a space
\* or tab becomes one space
RECURSIVE HEADER_CONTINUATION_RE(_, _)
HEADER_CONTINUATION_RE(s, i) ==
    IF i > Len(s) THEN <<>>
    ELSE LET n == LINE_BREAK(s, i)
         IN  IF n > 0 /\ i + n <= Len(s) /\ s[i + n] = SP
             THEN <<SP>> \o HEADER_CONTINUATION_RE(s, i + n + 1)
             ELSE <<s[i]>> \o HEADER_CONTINUATION_RE(s, i + 1)

\* bytes.splitlines(): the lines of s from position i on, cur being the line
\* collected so far
RECURSIVE splitlines(_, _, _)
splitlines(s, i, cur) ==
    IF i > Len(s) THEN (IF cur = <<>> THEN <<>> ELSE <<cur>>)
    ELSE LET n == LINE_BREAK(s, i)
         IN  IF n > 0 THEN <<cur>> \o splitlines(s, i + n, <<>>)
             ELSE splitlines(s, i + 1, Append(cur, s[i]))

\* bytes.strip() of a line
RECURSIVE strip(_)
strip(s) ==
    IF s = <<>> THEN s
    ELSE IF Head(s) = SP THEN strip(Tail(s))
    ELSE IF s[Len(s)] = SP THEN strip(Upto(s, Len(s) - 1))
    ELSE s

\* MultipartDecoder._parse_headers: the stripped, non-empty lines of the
\* header block; a line is a header when it holds a colon, that is a header
\* symbol, and line.split(":", 1) fails to unpack (ValueError) otherwise
HeaderLines(data) ==
    LET lines == splitlines(HEADER_CONTINUATION_RE(data, 1), 1, <<>>)
    IN  SelectSeq([i \in 1..Len(lines) |-> strip(lines[i])], LAMBDA l : l # <<>>)

HasColon(line) == \E i \in 1..Len(line) : line[i] \in HeaderSym

parse_headers(data) ==
    LET lines == HeaderLines(data)
    IN  IF \E i \in 1..Len(lines) : ~HasColon(lines[i])
        THEN [ok |-> FALSE, headers |-> <<>>]
        ELSE [ok |-> TRUE, headers |-> lines]

\* The header's name is the text before the first colon: it is
\* Content-Disposition when the line begins with a disposition symbol.
IsDisposition(line) == line[1] \in FieldHeader \cup FileHeader

\* Headers.__contains__("content-disposition")
HeadersContains(headers) == \E i \in 1..Len(headers) : IsDisposition(headers[i])

\* Headers.__getitem__("content-disposition"): the values of all the
\* Content-Disposition lines, joined in order by ", " (the symbol ",")
RECURSIVE Join(_)
Join(ss) ==
    IF ss = <<>> THEN <<>>
    ELSE IF Len(ss) = 1 THEN Head(ss)
    ELSE Head(ss) \o <<",">> \o Join(Tail(ss))

HeadersGetItem(headers) == Join(SelectSeq(headers, IsDisposition))

\* parse_header(value): the name and filename options.  Options are split
\* at ";", which only occurs inside a disposition symbol, so an option that
\* ends its symbol also takes the text that follows, up to the ";" of the
\* next disposition symbol (whose leading "form-data" is the symbol "D").
\* The last name="..." written wins; filename is None (<<>>) unless a symbol
\* with a filename occurs.
LastIndex(s, S) ==
    LET hits == {i \in 1..Len(s) : s[i] \in S}
    IN  IF hits = {} THEN 0 ELSE CHOOSE i \in hits : \A j \in hits : i >= j

parse_header(value) ==
    LET n == LastIndex(value, FieldHeader \cup FileHeader)
        f == LastIndex(value, FileHeader)
        nextd == {i \in (f + 1)..Len(value) : value[i] \in FieldHeader}
        fend == IF nextd = {} THEN Len(value)
                ELSE (CHOOSE i \in nextd : \A j \in nextd : i <= j) - 1
    IN  [name |-> IF value[n] \in FileHeader THEN <<NameIn(value[n])>>
                  ELSE <<NameIn(value[n])>> \o From(value, n + 1),
         filename |-> IF f = 0 THEN <<>>
                      ELSE <<"f">> \o SubSeq(value, f + 1, fend)
                           \o (IF nextd = {} THEN <<>> ELSE <<"D">>)]

(***************************************************************************)
(* MultipartDecoder                                                        *)
(***************************************************************************)
PREAMBLE == "PREAMBLE"
PART == "PART"
DATA == "DATA"
EPILOGUE == "EPILOGUE"
COMPLETE == "COMPLETE"
State == {PREAMBLE, PART, DATA, EPILOGUE, COMPLETE}

\* MultipartDecoder.__init__
MultipartDecoder == [buffer |-> <<>>, complete |-> FALSE, state |-> PREAMBLE]

\* MultipartDecoder.receive_data; None is the end-of-stream signal
None == <<"None">>

\* a variant of receive_data that also ends the decoding at end-of-stream
receive_data_completing(self, data) ==
    IF data = None THEN [self EXCEPT !.complete = TRUE, !.state = "COMPLETE"]
    ELSE [self EXCEPT !.buffer = self.buffer \o data]

receive_data(self, data) ==
    IF data = None THEN [self EXCEPT !.complete = TRUE]
    ELSE [self EXCEPT !.buffer = self.buffer \o data]

Out(self, event) == [self |-> self, event |-> event]

next_event_PREAMBLE_match(self, match) ==
    IF match.ok
    THEN Out([self EXCEPT !.state = IF match.closing THEN EPILOGUE ELSE PART,
                          !.buffer = From(self.buffer, match.end + 1)],
             Preamble(Upto(self.buffer, match.start)))
    ELSE Out(self, NEED_DATA)

next_event_PREAMBLE(self) == next_event_PREAMBLE_match(self, preamble_re(self.buffer))

\* File when the Content-Disposition has a filename option, Field otherwise
next_event_PART_event(headers, extra) ==
    IF extra.filename # <<>> THEN File(extra.name, extra.filename, headers)
    ELSE Field(extra.name, headers)

\* a variant of next_event_PART_headers that leaves the state at PART
next_event_PART_staying(self, rest, parsed) ==
    IF ~parsed.ok THEN Out(self, Raise("ValueError"))
    ELSE IF ~HeadersContains(parsed.headers)
    THEN Out(rest, Raise("MalformedMultipart"))
    ELSE Out(rest,
             next_event_PART_event(parsed.headers,
                                   parse_header(HeadersGetItem(parsed.headers))))

\* rest is the decoder once the header block has left the buffer, parsed is
\* what _parse_headers made of the block
next_event_PART_headers(self, rest, parsed) ==
    IF ~parsed.ok THEN Out(self, Raise("ValueError"))
    ELSE IF ~HeadersContains(parsed.headers)
    THEN Out(rest, Raise("MalformedMultipart"))
    ELSE Out([rest EXCEPT !.state = DATA],
             next_event_PART_event(parsed.headers,
                                   parse_header(HeadersGetItem(parsed.headers))))

next_event_PART_match(self, match) ==
    IF ~match.ok THEN Out(self, NEED_DATA)
    ELSE next_event_PART_headers(
             self,
             [self EXCEPT !.buffer = From(self.buffer, match.end + 1)],
             parse_headers(Upto(self.buffer, match.start)))

next_event_PART(self) == next_event_PART_match(self, BLANK_LINE_RE(self.buffer))

\* the Data event, unless there is no data and more is to come
next_event_DATA_event(after, data, more_data) ==
    IF data # <<>> \/ ~more_data THEN Out(after, Data(data, more_data))
    ELSE Out(after, NEED_DATA)

\* a variant of next_event_DATA_cut that leaves the buffer as it is when no
\* delimiter matched
next_event_DATA_cut_keeping(self, match, data_length, del_index) ==
    next_event_DATA_event(
        [self EXCEPT !.state = IF ~match.ok THEN DATA
                               ELSE IF match.closing THEN EPILOGUE ELSE PART,
                     !.buffer = IF ~match.ok THEN self.buffer
                                ELSE From(self.buffer, del_index + 1)],
        Upto(self.buffer, data_length),
        ~match.ok)

\* data_length bytes are returned, del_index bytes leave the buffer
next_event_DATA_cut(self, match, data_length, del_index) ==
    next_event_DATA_event(
        [self EXCEPT !.state = IF ~match.ok THEN DATA
                               ELSE IF match.closing THEN EPILOGUE ELSE PART,
                     !.buffer = From(self.buffer, del_index + 1)],
        Upto(self.buffer, data_length),
        ~match.ok)

\* a variant of next_event_DATA_match that returns the whole buffer as data
\* when no delimiter matched
next_event_DATA_whole_buffer(self, match, newline) ==
    IF match.ok THEN next_event_DATA_cut(self, match, match.start, match.end)
    ELSE next_event_DATA_cut(self, match, Len(self.buffer), Len(self.buffer))

\* match is the delimiter found (if any), newline is last_newline()
next_event_DATA_match(self, match, newline) ==
    IF match.ok THEN next_event_DATA_cut(self, match, match.start, match.end)
    ELSE next_event_DATA_cut(self, match, newline, newline)

next_event_DATA(self) ==
    next_event_DATA_match(
        self,
        IF HasDelimiter(self.buffer) THEN boundary_re(self.buffer) ELSE NoMatch,
        last_newline(self.buffer))

next_event_EPILOGUE(self) ==
    IF self.complete
    THEN Out([self EXCEPT !.buffer = <<>>, !.state = COMPLETE],
             Epilogue(self.buffer))
    ELSE Out(self, NEED_DATA)

\* the branch of next_event for the decoder's state
next_event_state(self) ==
    CASE self.state = PREAMBLE -> next_event_PREAMBLE(self)
      [] self.state = PART -> next_event_PART(self)
      [] self.state = DATA -> next_event_DATA(self)
      [] self.state = EPILOGUE -> next_event_EPILOGUE(self)
      [] OTHER -> Out(self, NEED_DATA)

\* the check made before next_event returns: r is the event of the branch
next_event_complete(complete, r) ==
    IF complete /\ r.event.type = "NeedData"
    THEN Out(r.self, Raise("MalformedMultipart"))
    ELSE r

\* a variant of next_event without the check made at end-of-stream
next_event_unchecked(self) == next_event_state(self)

\* MultipartDecoder.next_event: the decoder after the call and what the call
\* returned or raised
next_event(self) == next_event_complete(self.complete, next_event_state(self))


(***************************************************************************)
(* Well-formed bodies: the fields of a form written with CRLF line ends    *)
(***************************************************************************)
CRLF == <<CR, LF>>

delimiter == <<DASH, DASH>> \o boundary

\* one part: delimiter line, Content-Disposition line, blank line, value
EncodePart(f) == delimiter \o CRLF \o <<f.header>> \o CRLF \o CRLF \o f.value \o CRLF

RECURSIVE EncodeParts(_)
EncodeParts(fields) ==
    IF fields = <<>> THEN <<>>
    ELSE EncodePart(Head(fields)) \o EncodeParts(Tail(fields))

Encode(fields) == EncodeParts(fields) \o delimiter \o <<DASH, DASH>> \o CRLF

\* s holds t as a substring
Contains(s, t) == \E i \in 1..Len(s) : StartsAt(s, i, t)

\* all byte strings of at most n bytes over the set B
Strings(B, n) == UNION {[1..k -> B] : k \in 0..n}

\* all lists of at most n elements of S
Lists(S, n) == UNION {[1..k -> S] : k \in 0..n}

(***************************************************************************)
(* State                                                                   *)
(***************************************************************************)
VARIABLES
    parser,     \* the MultipartDecoder: buffer, complete, state
    event,      \* the kind of what the latest next_event call returned or
                \* raised; NoCall after a receive_data call
    grammar,    \* where the events returned so far stand in the sequence
                \* Preamble (Field|File Data* Data)* Epilogue
    fields,     \* the form the body was written from
    payload,    \* the body being fed to the decoder
    fed,        \* how many bytes of payload have been handed over
    events,     \* everything next_event returned or raised except NeedData
    call,       \* a call of parse_stream: its arguments, its locals, and
                \* whether it is running, has returned or has raised
    range_header,    \* the Range header handed to parse_range
    file_size,       \* the size of the file handed to parse_range
    range_result,    \* what parse_range returned or raised
    response,   \* a FileResponse being sent: its headers, the position of
                \* its generator and the body yielded so far
    routed,     \* a Router, the path of a request and what the call did
    converted,  \* a path convertor, a string and what converting it gave
    headers,    \* a Headers or MutableHeaders object: its list raw
    request,    \* a Request: its body source, _stream_consumed, the cached
                \* properties and what the latest access gave
    websocket,  \* a WebSocket: its two states, the messages of its channel
                \* and what was passed to the ASGI send
    subpaths,   \* a Subpaths application, a scope and what the call did
    multidict,  \* a MultiDict: its dictionary and its list of pairs
    send_event  \* a SendEventResponse being iterated: its queue, its
                \* threads and the chunks the consumer got

\* the decoder and the body it is fed
decoder_vars == <<parser, event, grammar, fields, payload, fed, events>>

range_vars == <<range_header, file_size, range_result>>

\* the objects of the responses, the router, the header containers and the
\* requests
app_vars == <<response, routed, converted, headers, request>>

\* the web socket, the mounted applications, the multi-value mapping and
\* the server-sent events
other_vars == <<websocket, subpaths, multidict, send_event>>

vars == <<parser, event, grammar, fields, payload, fed, events, call,
          range_header, file_size, range_result,
          response, routed, converted, headers, request,
          websocket, subpaths, multidict, send_event>>

\* no call of parse_stream is under way
NoStream == [status |-> "none"]

\* no call of parse_range was made
NoRange ==
    /\ range_header = <<>>
    /\ file_size = 0
    /\ range_result = [status |-> "none"]

\* no response, router, convertor, header container or request is in use
NoApp ==
    /\ response = [status |-> "none"]
    /\ routed = [status |-> "none"]
    /\ converted = [status |-> "none"]
    /\ headers = [status |-> "none"]
    /\ request = [status |-> "none"]

\* no web socket, mounted application, multi-value mapping or event response
\* is in use
NoOther ==
    /\ websocket = [status |-> "none"]
    /\ subpaths = [status |-> "none"]
    /\ multidict = [status |-> "none"]
    /\ send_event = [status |-> "none"]

\* the class of an outcome and, for Data, its more_data flag
Kind(e) == [type |-> e.type, more_data |-> e.more_data]

NoCall == Kind(Raise("None"))

IsEvent(k) == k.type \in {"Preamble", "Field", "File", "Data", "Epilogue"}

IsRaise(k) == k.type \in {"MalformedMultipart", "ValueError"}

(***************************************************************************)
(* The decoder under an arbitrary caller: any bytes, fed in any pieces,    *)
(* with next_event called at any moment.                                   *)
(***************************************************************************)
\* bound: receive_data is not called while the buffer holds MaxBuffer bytes
MaxBuffer == 6
\* bound: the longest chunk handed to one receive_data call
MaxChunk == 1

\* BCH also stands for a byte of part data
Byte == {CR, LF, DASH, BCH, "Fa"}

Chunks(n) == Strings(Byte, n) \ {<<>>}

\* The event sequence a caller may see, as an automaton over event kinds:
\* start -Preamble-> parts0; parts0, parts1 -Field|File-> head;
\* head, body -Data(more)-> body; head, body -Data(last)-> parts1;
\* parts0 -Epilogue-> end0; parts1 -Epilogue-> end1 (Epilogue only once the
\* end of the stream was signalled); everything else -> bad
Follow(g, k, complete) ==
    CASE k.type = "Preamble" -> IF g = "start" THEN "parts0" ELSE "bad"
      [] k.type \in {"Field", "File"} ->
            IF g \in {"parts0", "parts1"} THEN "head" ELSE "bad"
      [] k.type = "Data" ->
            IF g \notin {"head", "body"} THEN "bad"
            ELSE IF k.more_data THEN "body" ELSE "parts1"
      [] k.type = "Epilogue" ->
            IF ~complete THEN "bad"
            ELSE IF g = "parts0" THEN "end0"
            ELSE IF g = "parts1" THEN "end1" ELSE "bad"
      [] OTHER -> g

DecoderInit ==
    /\ parser = MultipartDecoder
    /\ event = NoCall
    /\ grammar = "start"
    /\ fields = <<>>
    /\ payload = <<>>
    /\ fed = 0
    /\ events = <<>>
    /\ call = NoStream
    /\ NoRange
    /\ NoApp /\ NoOther

\* decoder.receive_data(chunk)
ReceiveData ==
    \E chunk \in Chunks(MaxChunk) :
        /\ Len(parser.buffer) + Len(chunk) <= MaxBuffer
        /\ parser' = receive_data(parser, chunk)
        /\ event' = NoCall
        /\ UNCHANGED <<grammar, fields, payload, fed, events, call, range_vars, app_vars, other_vars>>

\* decoder.receive_data(None)
ReceiveNone ==
    /\ parser' = receive_data(parser, None)
    /\ event' = NoCall
    /\ UNCHANGED <<grammar, fields, payload, fed, events, call, range_vars, app_vars, other_vars>>

\* decoder.next_event()
NextEvent ==
    LET r == next_event(parser)
    IN  /\ parser' = r.self
        /\ event' = Kind(r.event)
        /\ grammar' = Follow(grammar, Kind(r.event), parser.complete)
        /\ UNCHANGED <<fields, payload, fed, events, call, range_vars, app_vars, other_vars>>

DecoderNext == ReceiveData \/ ReceiveNone \/ NextEvent

DecoderSpec == DecoderInit /\ [][DecoderNext]_vars

StateEdges ==
    {<<PREAMBLE, PART>>, <<PREAMBLE, EPILOGUE>>, <<PART, DATA>>,
     <<DATA, PART>>, <<DATA, EPILOGUE>>, <<EPILOGUE, COMPLETE>>}

MarkerFound(self) ==
    CASE self.state = PREAMBLE -> preamble_re(self.buffer).ok
      [] self.state = PART -> BLANK_LINE_RE(self.buffer).ok
      [] self.state = DATA -> boundary_re(self.buffer).ok
      [] self.state = EPILOGUE -> self.complete
      [] OTHER -> FALSE

MaxChunkFields == 2
\* bound: the number of bytes of a field's value
MaxChunkValue == 1

\* bound: the longest chunk
MaxFeed == 3

ValueByte == {CR, LF, DASH, XCH}

ChunkFields ==
    Lists([header : {"Fa", "Ub"}, value : Strings(ValueByte, MaxChunkValue)],
          MaxChunkFields)

\* call next_event until it returns NeedData, raises, or returns Epilogue;
\* acc collects what it returned or raised, NeedData left out
RECURSIVE Drain(_, _)
\* r is what one next_event call gave
DrainStep(r, acc) ==
    IF r.event.type = "NeedData" THEN [self |-> r.self, events |-> acc]
    ELSE IF IsRaise(r.event) \/ r.event.type = "Epilogue"
    THEN [self |-> r.self, events |-> Append(acc, r.event)]
    ELSE Drain(r.self, Append(acc, r.event))

Drain(self, acc) == DrainStep(next_event(self), acc)

ChunkInit ==
    /\ parser = MultipartDecoder
    /\ event = NoCall
    /\ grammar = "start"
    /\ fields \in ChunkFields
    /\ payload = Encode(fields)
    /\ fed = 0
    /\ events = <<>>
    /\ call = NoStream
    /\ NoRange
    /\ NoApp /\ NoOther

\* receive_data(chunk) for the next n bytes of the body, then the drain
FeedChunk ==
    \E n \in 1..Min(MaxFeed, Len(payload) - fed) :
        LET chunk == SubSeq(payload, fed + 1, fed + n)
            r == Drain(receive_data(parser, chunk), events)
        IN  /\ ~parser.complete
            /\ parser' = r.self
            /\ events' = r.events
            /\ fed' = fed + n
            /\ UNCHANGED <<event, grammar, fields, payload, call, range_vars, app_vars, other_vars>>

\* receive_data(None) after the last chunk, then the drain
FeedEnd ==
    LET r == Drain(receive_data(parser, None), events)
    IN  /\ fed = Len(payload)
        /\ ~parser.complete
        /\ parser' = r.self
        /\ events' = r.events
        /\ UNCHANGED <<event, grammar, fields, payload, fed, call, range_vars, app_vars, other_vars>>

ChunkNext == FeedChunk \/ FeedEnd

ChunkSpec == ChunkInit /\ [][ChunkNext]_vars

\* what the same calls return when the body is fed as one chunk
OneChunk(body) ==
    LET whole == Drain(receive_data(MultipartDecoder, body), <<>>)
    IN  Drain(receive_data(whole.self, None), whole.events).events

IsPrefix(s, t) == Len(s) <= Len(t) /\ s = SubSeq(t, 1, Len(s))

IsSuffix(s, t) == Len(s) <= Len(t) /\ s = SubSeq(t, Len(t) - Len(s) + 1, Len(t))

\* the events with the Data events of each part merged into one and the
\* bytes of the Epilogue left out
RECURSIVE MergeData(_, _)
MergeData(es, acc) ==
    IF es = <<>> THEN acc
    ELSE LET e == Head(es)
             n == Len(acc)
         IN  IF e.type = "Data" /\ n > 0 /\ acc[n].type = "Data" /\ acc[n].more_data
             THEN MergeData(Tail(es),
                            [acc EXCEPT ![n] = Data(acc[n].data \o e.data, e.more_data)])
             ELSE IF e.type = "Epilogue"
             THEN MergeData(Tail(es), Append(acc, Epilogue(<<>>)))
             ELSE MergeData(Tail(es), Append(acc, e))

EpilogueData(es) ==
    IF es # <<>> /\ es[Len(es)].type = "Epilogue" THEN es[Len(es)].data ELSE <<>>

RECURSIVE PartsData(_, _)
PartsData(es, acc) ==
    IF es = <<>> THEN acc
    ELSE LET e == Head(es)
             n == Len(acc)
         IN  IF e.type \in {"Field", "File"}
             THEN PartsData(Tail(es), Append(acc, [data |-> <<>>, closed |-> FALSE]))
             ELSE IF e.type = "Data" /\ n > 0
             THEN PartsData(Tail(es),
                            [acc EXCEPT ![n] = [data |-> acc[n].data \o e.data,
                                                closed |-> ~e.more_data]])
             ELSE PartsData(Tail(es), acc)

Utf8Valid(src) ==
    \A i \in 1..Len(src) :
        /\ src[i] = "C3" => (i < Len(src) /\ src[i + 1] = "A9")
        /\ src[i] = "A9" => (i > 1 /\ src[i - 1] = "C3")

\* src.decode("utf-8") of well-formed UTF-8
RECURSIVE utf_8_decode(_)
utf_8_decode(src) ==
    IF src = <<>> THEN <<>>
    ELSE IF Head(src) = "C3" THEN <<"e_acute">> \o utf_8_decode(Tail(Tail(src)))
    ELSE <<Head(src)>> \o utf_8_decode(Tail(src))

\* src.decode("latin-1"): one character per byte
latin_1_decode(src) ==
    [i \in 1..Len(src) |->
        CASE src[i] = "C3" -> "A_tilde"
          [] src[i] = "A9" -> "copyright"
          [] OTHER -> src[i]]

safe_decode(src) ==
    IF Utf8Valid(src) THEN utf_8_decode(src) ELSE latin_1_decode(src)

\* str.encode("utf-8"), the encoding a client writes a text value in
RECURSIVE utf_8_encode(_)
utf_8_encode(text) ==
    IF text = <<>> THEN <<>>
    ELSE (CASE Head(text) = "e_acute" -> <<"C3", "A9">>
            [] Head(text) = "A_tilde" -> <<"C3", "83">>
            [] Head(text) = "copyright" -> <<"C2", "A9">>
            [] OTHER -> <<Head(text)>>)
         \o utf_8_encode(Tail(text))

\* file: Optional[_SyncUploadFile] = None
NoFile == [is_none |-> TRUE, filename |-> <<>>, content |-> <<>>]

\* file_factory(event.filename, event.headers)
file_factory(filename) == [is_none |-> FALSE, filename |-> filename, content |-> <<>>]

\* max_form_memory_size=None
NoLimit == -1

\* the locals of parse_stream before the first chunk is read
parse_stream(max_form_parts, max_form_memory_size) ==
    [field_name |-> <<>>, data |-> <<>>, file |-> NoFile,
     form_parts_count |-> 0, form_memory_size_count |-> 0, items |-> <<>>,
     max_form_parts |-> max_form_parts,
     max_form_memory_size |-> max_form_memory_size,
     status |-> "running"]

\* the item of the part that ended: (field_name, safe_decode(data, charset))
\* or (field_name, file)
parse_stream_new_item(c) ==
    IF c.file.is_none
    THEN [name |-> c.field_name, text |-> safe_decode(c.data), file |-> NoFile]
    ELSE [name |-> c.field_name, text |-> <<>>, file |-> c.file]

\* a variant of parse_stream_item without data.clear()
parse_stream_item_keeping_data(c) ==
    [c EXCEPT !.items = Append(@, parse_stream_new_item(c)),
              !.file = NoFile]

\* items.append(...), then data.clear() or file = None
parse_stream_item(c) ==
    [c EXCEPT !.items = Append(@, parse_stream_new_item(c)),
              !.data = IF c.file.is_none THEN <<>> ELSE @,
                 !.file = NoFile]

\* a variant of parse_stream_count that allows one part less
parse_stream_count_strict(c) ==
    [c EXCEPT !.form_parts_count = @ + 1,
              !.status = IF c.form_parts_count + 1 >= c.max_form_parts
                         THEN "RequestEntityTooLarge" ELSE @]

\* form_parts_count += 1 and the check against max_form_parts
parse_stream_count(c) ==
    [c EXCEPT !.form_parts_count = @ + 1,
              !.status = IF c.form_parts_count + 1 > c.max_form_parts
                         THEN "RequestEntityTooLarge" ELSE @]

\* a variant of parse_stream_store that counts the bytes of files too
parse_stream_store_counting_files(c, e) ==
    IF c.file.is_none
    THEN [c EXCEPT !.data = @ \o e.data,
                   !.form_memory_size_count = @ + Len(e.data)]
    ELSE [c EXCEPT !.file.content = @ \o e.data,
                   !.form_memory_size_count = @ + Len(e.data)]

\* data.extend(event.data) and the count of the bytes held in memory, or
\* file.write(event.data)
parse_stream_store(c, e) ==
    IF c.file.is_none
    THEN [c EXCEPT !.data = @ \o e.data,
                   !.form_memory_size_count = @ + Len(e.data)]
    ELSE [c EXCEPT !.file.content = @ \o e.data]

\* stored is c once the data of the event is kept
parse_stream_check(stored, more_data) ==
    IF /\ stored.max_form_memory_size # NoLimit
       /\ stored.form_memory_size_count > stored.max_form_memory_size
    THEN [stored EXCEPT !.status = "RequestEntityTooLarge"]
    ELSE IF ~more_data THEN parse_stream_count(parse_stream_item(stored))
    ELSE stored

\* the branch isinstance(event, Data).  The check against
\* max_form_memory_size is made in the branch file is None only; the count
\* does not change in the other branch.
parse_stream_Data(c, e) ==
    IF c.file.is_none
    THEN parse_stream_check(parse_stream_store(c, e), e.more_data)
    ELSE IF ~e.more_data
    THEN parse_stream_count(parse_stream_item(parse_stream_store(c, e)))
    ELSE parse_stream_store(c, e)

\* the if/elif chain over the event's type
parse_stream_event(c, e) ==
    CASE e.type = "Field" -> [c EXCEPT !.field_name = e.name]
      [] e.type = "File" -> [c EXCEPT !.field_name = e.name,
                                          !.file = file_factory(e.filename)]
      [] e.type = "Data" -> parse_stream_Data(c, e)
      [] OTHER -> c

\* the loop "while True: event = parser.next_event() ..." run for one chunk:
\* left by break at Epilogue or NeedData, or by an exception.  acc collects
\* the events returned and the exceptions raised by next_event.
RECURSIVE parse_stream_while(_, _, _)
parse_stream_handled(self, handled, acc) ==
    IF handled.status # "running"
    THEN [self |-> self, call |-> handled, events |-> acc]
    ELSE parse_stream_while(self, handled, acc)

\* r is what next_event gave
parse_stream_next(r, c, acc) ==
    IF r.event.type \in {"Epilogue", "NeedData"}
    THEN [self |-> r.self, call |-> c, events |-> acc]
    ELSE IF IsRaise(r.event)
    THEN [self |-> r.self, call |-> [c EXCEPT !.status = r.event.type],
          events |-> Append(acc, r.event)]
    ELSE parse_stream_handled(r.self, parse_stream_event(c, r.event),
                              Append(acc, r.event))

parse_stream_while(self, c, acc) == parse_stream_next(next_event(self), c, acc)

(***************************************************************************)
(* parse_stream called on the body of a form: the stream yields the body   *)
(* in chunks and may end at any point of it (a truncated body).            *)
(***************************************************************************)
\* bound: the number of fields of a form
MaxFormFields == 2
\* bound: the number of fragments a value is made of
MaxFormValue == 1
\* bound: the longest chunk the stream yields, the rest of the body apart
MaxFormChunk == 1
\* bound: the largest max_form_parts
MaxFormParts == 2
\* bound: the largest max_form_memory_size
MaxFormMemory == 1

\* what the values are made of: text, a line break, bytes above 0x7F, and
\* the boundary after a line break
FormFragment ==
    {<<XCH>>, <<CR>>, <<"C3", "A9">>, <<"A9">>,
     <<LF, DASH, DASH, BCH>>, <<CR, LF, DASH, DASH, BCH>>}

RECURSIVE Concat(_)
Concat(ss) == IF ss = <<>> THEN <<>> ELSE Head(ss) \o Concat(Tail(ss))

FormValue == {Concat(ss) : ss \in Lists(FormFragment, MaxFormValue)}

FormFields == Lists([header : {"Fa", "Ub"}, value : FormValue], MaxFormFields)

FormInit ==
    /\ parser = MultipartDecoder
    /\ event = NoCall
    /\ grammar = "start"
    /\ fields \in FormFields
    /\ payload = Encode(fields)
    /\ fed = 0
    /\ events = <<>>
    /\ call \in {parse_stream(p, m) : p \in 1..MaxFormParts,
                                      m \in {NoLimit} \cup 0..MaxFormMemory}
    /\ NoRange
    /\ NoApp /\ NoOther

\* for chunk in stream: the next n bytes of the body, or all that is left of
\* it, then the loop over the events
StreamChunk ==
    \E n \in (1..MaxFormChunk) \cup {Len(payload) - fed} :
        LET r == parse_stream_while(
                     receive_data(parser, SubSeq(payload, fed + 1, fed + n)),
                     call, events)
        IN  /\ call.status = "running"
            /\ n >= 1
            /\ fed + n <= Len(payload)
            /\ parser' = r.self
            /\ call' = r.call
            /\ events' = r.events
            /\ fed' = fed + n
            /\ UNCHANGED <<event, grammar, fields, payload, range_vars, app_vars, other_vars>>

\* the stream is exhausted: return items
StreamEnd ==
    /\ call.status = "running"
    /\ call' = [call EXCEPT !.status = "returned"]
    /\ UNCHANGED <<decoder_vars, range_vars, app_vars, other_vars>>

\* Request.close(): the files of the form are closed when the form was
\* parsed; when parsing it raised, there is no form to close
Request_close(c) == IF c.status = "returned" THEN [c EXCEPT !.status = "closed"] ELSE c

\* the caller is done with the request and closes it
RequestClose ==
    /\ call.status \notin {"running", "closed"}
    /\ call' = Request_close(call)
    /\ UNCHANGED <<decoder_vars, range_vars, app_vars, other_vars>>

FormNext == StreamChunk \/ StreamEnd \/ RequestClose

FormSpec == FormInit /\ [][FormNext]_vars

\* the bytes of an item: the text as a client writes it, or the file's content
ItemBytes(item) ==
    IF item.file.is_none THEN utf_8_encode(item.text) ELSE item.file.content

\* the items are the fields F, in order: names, kinds and bytes
SameForm(items, F) ==
    /\ Len(items) = Len(F)
    /\ \A i \in 1..Len(F) :
          /\ items[i].name = <<NameIn(F[i].header)>>
          /\ items[i].file.is_none = (F[i].header \in FieldHeader)
          /\ ItemBytes(items[i]) = F[i].value

NoDelimiter(F) ==
    \A i \in 1..Len(F) :
        /\ ~Contains(F[i].value, <<LF>> \o delimiter)
        /\ ~Contains(F[i].value, <<CR>> \o delimiter)

C7_TruncatedFails ==
    call.status = "returned" => fed >= Len(payload) - Len(CRLF)

\* the parts of which the decoder returned the last Data event
Completed(es) ==
    Cardinality({i \in 1..Len(es) : es[i].type = "Data" /\ ~es[i].more_data})

\* the bytes of the Data events of text fields; text tells whether the part
\* the events begin in is a text field
RECURSIVE TextBytes(_, _)
TextBytes(es, text) ==
    IF es = <<>> THEN 0
    ELSE CASE Head(es).type = "Field" -> TextBytes(Tail(es), TRUE)
           [] Head(es).type = "File" -> TextBytes(Tail(es), FALSE)
           [] Head(es).type = "Data" ->
                (IF text THEN Len(Head(es).data) ELSE 0) + TextBytes(Tail(es), text)
           [] OTHER -> TextBytes(Tail(es), text)

\* the text-field bytes returned so far are more than max_form_memory_size
MemoryExceeded ==
    /\ call.max_form_memory_size # NoLimit
    /\ TextBytes(events, FALSE) > call.max_form_memory_size

RECURSIVE int(_)
int(digits) ==
    IF digits = <<>> THEN 0
    ELSE 10 * int(SubSeq(digits, 1, Len(digits) - 1)) + digits[Len(digits)]

\* a variant of parse_range_pair that keeps the last position inclusive
parse_range_pair_inclusive(t, max_size) ==
    <<IF t[1] # <<>> THEN int(t[1]) ELSE max_size - int(t[2]),
      IF t[1] # <<>> /\ t[2] # <<>> /\ int(t[2]) < max_size
      THEN int(t[2]) ELSE max_size>>

\* the (start, end) of one pair found
parse_range_pair(t, max_size) ==
    <<IF t[1] # <<>> THEN int(t[1]) ELSE max_size - int(t[2]),
      IF t[1] # <<>> /\ t[2] # <<>> /\ int(t[2]) < max_size
      THEN int(t[2]) + 1 ELSE max_size>>

\* the list comprehension: the pairs other than ("", "") as (start, end)
parse_range_ranges(found, max_size) ==
    [i \in 1..Len(SelectSeq(found, LAMBDA t : t # <<<<>>, <<>>>>)) |->
        parse_range_pair(SelectSeq(found, LAMBDA t : t # <<<<>>, <<>>>>)[i], max_size)]

\* result.insert(p, item)
insert(result, p, item) ==
    SubSeq(result, 1, p - 1) \o <<item>> \o SubSeq(result, p, Len(result))

\* the loop over the positions of result from position p on, and its else
RECURSIVE parse_range_place(_, _, _, _)
parse_range_place(result, p, start, end) ==
    IF p > Len(result) THEN Append(result, <<start, end>>)
    ELSE IF start > result[p][2] THEN parse_range_place(result, p + 1, start, end)
    ELSE IF end < result[p][1] THEN insert(result, p, <<start, end>>)
    ELSE [result EXCEPT ![p] = <<Min(start, result[p][1]), Max(end, result[p][2])>>]

\* the loop over the ranges from the i-th range on
RECURSIVE parse_range_merge(_, _, _)
parse_range_merge(rs, i, result) ==
    IF i > Len(rs) THEN result
    ELSE parse_range_merge(rs, i + 1,
                           parse_range_place(result, 1, rs[i][1], rs[i][2]))

\* str(n): the decimal digits of n as characters
RECURSIVE str(_)
str(n) ==
    IF n < 0 THEN <<"-">> \o str(-n)
    ELSE IF n < 10 THEN <<<<"0", "1", "2", "3", "4", "5", "6", "7", "8", "9">>[n + 1]>>
    ELSE str(n \div 10) \o str(n % 10)

\* RangeNotSatisfiable(max_size): 416 with the header Content-Range: */max_size
RangeNotSatisfiable(max_size) ==
    [status |-> "RangeNotSatisfiable", ranges |-> <<>>,
     status_code |-> 416, content_range |-> <<"*", "/">> \o str(max_size)]

\* a variant of parse_range_checked that checks start > end before the
\* start positions
parse_range_checked_syntax_first(rs, max_size) ==
    IF Len(rs) = 0 THEN [status |-> "MalformedRangeHeader", ranges |-> <<>>]
    ELSE IF \E i \in 1..Len(rs) : rs[i][1] > rs[i][2]
    THEN [status |-> "MalformedRangeHeader", ranges |-> <<>>]
    ELSE IF \E i \in 1..Len(rs) : ~(0 <= rs[i][1] /\ rs[i][1] < max_size)
    THEN RangeNotSatisfiable(max_size)
    ELSE IF Len(rs) = 1 THEN [status |-> "returned", ranges |-> rs]
    ELSE [status |-> "returned", ranges |-> parse_range_merge(rs, 1, <<>>)]

\* the checks on the ranges, and the merge
parse_range_checked(rs, max_size) ==
    IF Len(rs) = 0 THEN [status |-> "MalformedRangeHeader", ranges |-> <<>>]
    ELSE IF \E i \in 1..Len(rs) : ~(0 <= rs[i][1] /\ rs[i][1] < max_size)
    THEN RangeNotSatisfiable(max_size)
    ELSE IF \E i \in 1..Len(rs) : rs[i][1] > rs[i][2]
    THEN [status |-> "MalformedRangeHeader", ranges |-> <<>>]
    ELSE IF Len(rs) = 1 THEN [status |-> "returned", ranges |-> rs]
    ELSE [status |-> "returned", ranges |-> parse_range_merge(rs, 1, <<>>)]

parse_range(range_raw_line, max_size) ==
    IF ~range_raw_line.equals \/ range_raw_line.unit # "bytes"
    THEN [status |-> "MalformedRangeHeader", ranges |-> <<>>]
    ELSE parse_range_checked(parse_range_ranges(range_raw_line.found, max_size),
                             max_size)

\* bound: the number of pairs in a header
MaxRanges == 3
\* bound: the largest digit written
MaxRangeDigit == 3
\* bound: the number of digits of a number
MaxRangeDigits == 1
\* bound: the largest file size
MaxRangeSize == 5

RangeHeaders ==
    [equals : BOOLEAN, unit : {"bytes", "byte"},
     found : Lists(Strings(0..MaxRangeDigit, MaxRangeDigits)
                       \X Strings(0..MaxRangeDigit, MaxRangeDigits),
                   MaxRanges)]

\* no body is being decoded and no call of parse_stream is under way
NoDecoder ==
    /\ parser = MultipartDecoder
    /\ event = NoCall
    /\ grammar = "start"
    /\ fields = <<>>
    /\ payload = <<>>
    /\ fed = 0
    /\ events = <<>>
    /\ call = NoStream

RangeInit ==
    /\ NoDecoder
    /\ range_header \in RangeHeaders
    /\ file_size \in 0..MaxRangeSize
    /\ range_result = [status |-> "none"]
    /\ NoApp /\ NoOther

\* parse_range(range_raw_line, max_size)
ParseRange ==
    /\ range_result.status = "none"
    /\ range_result' = parse_range(range_header, file_size)
    /\ UNCHANGED <<decoder_vars, call, range_header, file_size, app_vars, other_vars>>

RangeNext == ParseRange

RangeSpec == RangeInit /\ [][RangeNext]_vars

\* the bytes 0..max_size-1 that lie in one of the intervals
Covered(rs, max_size) ==
    {k \in 0..max_size : \E i \in 1..Len(rs) : rs[i][1] <= k /\ k < rs[i][2]}

\* C10: the intervals parse_range returns are in ascending order, no two of
\* them overlap or touch (each ends before the next starts), and together
\* they cover the same bytes as the ranges requested.
C10_DisjointRanges ==
    range_result.status = "returned" =>
        /\ \A i \in 1..(Len(range_result.ranges) - 1) :
              range_result.ranges[i][2] < range_result.ranges[i + 1][1]
        /\ Covered(range_result.ranges, file_size)
              = Covered(parse_range_ranges(range_header.found, file_size), file_size)

\* the header has the unit bytes and parse_range was called on it
Parsed ==
    /\ range_result.status # "none"
    /\ range_header.equals
    /\ range_header.unit = "bytes"

\* C11: when a header with the unit bytes holds a pair start-end, both
\* numbers written, with start greater than end and start inside the
\* resource, parse_range raises MalformedRangeHeader.
C11_StartAfterEndMalformed ==
    (/\ Parsed
     /\ \E i \in 1..Len(range_header.found) :
           /\ range_header.found[i][1] # <<>>
           /\ range_header.found[i][2] # <<>>
           /\ int(range_header.found[i][1]) > int(range_header.found[i][2])
           /\ int(range_header.found[i][1]) < file_size)
    => range_result.status = "MalformedRangeHeader"

\* the i-th pair of the header asks for a start outside [0, file_size): a
\* written start at or after the size, or a suffix longer than the size
StartOutside(i) ==
    \/ /\ range_header.found[i][1] # <<>>
       /\ int(range_header.found[i][1]) >= file_size
    \/ /\ range_header.found[i][1] = <<>>
       /\ range_header.found[i][2] # <<>>
       /\ int(range_header.found[i][2]) > file_size

\* C12: when any range of a header with the unit bytes has its start outside
\* [0, file_size), parse_range raises RangeNotSatisfiable, which carries the
\* header Content-Range: */file_size, whatever the other ranges are.
C12_NotSatisfiable ==
    (Parsed /\ \E i \in 1..Len(range_header.found) : StartOutside(i))
    => /\ range_result.status = "RangeNotSatisfiable"
       /\ range_result.status_code = 416
       /\ range_result.content_range = <<"*", "/">> \o str(file_size)

\* RangeNotSatisfiable for a header of three ranges: one satisfiable, one
\* with start after end, one suffix longer than the resource
C12_Witness ==
    /\ range_result.status = "RangeNotSatisfiable"
    /\ Parsed
    /\ file_size = 3
    /\ range_header.found = <<<<<<0>>, <<1>>>>, <<<<2>>, <<0>>>>, <<<<>>, <<3>>>>>>
       \/ range_header.found = <<<<<<0>>, <<1>>>>, <<<<2>>, <<0>>>>, <<<<3>>, <<>>>>>>

\* the pairs of the header other than the bare dash
Real == SelectSeq(range_header.found, LAMBDA t : t # <<<<>>, <<>>>>)

\* C13: a header with the unit bytes and one satisfiable range gives one
\* interval: (a, min(b+1, N)) for a-b with a <= b, (a, N) for a-, (N-n, N)
\* for -n with 0 < n <= N, the bare dashes around it being ignored; a header
\* without a range, without the equals sign or with another unit raises
\* MalformedRangeHeader.
C13_SingleRange ==
    /\ (Parsed /\ Len(Real) = 1 /\ Real[1][1] # <<>> /\ Real[1][2] # <<>>
            /\ int(Real[1][1]) <= int(Real[1][2]) /\ int(Real[1][1]) < file_size)
       => range_result = [status |-> "returned",
                          ranges |-> <<<<int(Real[1][1]),
                                         Min(int(Real[1][2]) + 1, file_size)>>>>]
    /\ (Parsed /\ Len(Real) = 1 /\ Real[1][1] # <<>> /\ Real[1][2] = <<>>
            /\ int(Real[1][1]) < file_size)
       => range_result = [status |-> "returned",
                          ranges |-> <<<<int(Real[1][1]), file_size>>>>]
    /\ (Parsed /\ Len(Real) = 1 /\ Real[1][1] = <<>>
            /\ 0 < int(Real[1][2]) /\ int(Real[1][2]) <= file_size)
       => range_result = [status |-> "returned",
                          ranges |-> <<<<file_size - int(Real[1][2]), file_size>>>>]
    /\ (Parsed /\ Len(Real) = 0) => range_result.status = "MalformedRangeHeader"
    /\ (range_result.status # "none"
            /\ (~range_header.equals \/ range_header.unit # "bytes"))
       => range_result.status = "MalformedRangeHeader"

\* one range a-b between two bare dashes, cut at the size of the resource
C13_Witness ==
    /\ Parsed
    /\ file_size = 2
    /\ range_header.found = <<<<<<>>, <<>>>>, <<<<1>>, <<3>>>>, <<<<>>, <<>>>>>>
    /\ range_result.ranges = <<<<1, 2>>>>

(***************************************************************************)
(* FileResponse (baize/wsgi/responses.py) answering a request for a file   *)
(* of file_size bytes: __call__ is a generator, and every next() on it     *)
(* runs it up to its next yield.  A string is the sequence of its          *)
(* characters, "LF" being the line feed; every byte of the file is "x".    *)
(* send_header_only tells a HEAD request and http_range whether the        *)
(* request carries a Range header; it carries no If-Range header.          *)
(***************************************************************************)
\* the sum over the ranges in generate_multipart
RECURSIVE generate_multipart_sum(_, _)
generate_multipart_sum(ranges, static_header_part_len) ==
    IF ranges = <<>> THEN 0
    ELSE (Len(str(Head(ranges)[1])) + Len(str(Head(ranges)[2] - 1))
              + static_header_part_len)
         + (Head(ranges)[2] - Head(ranges)[1])
         + generate_multipart_sum(Tail(ranges), static_header_part_len)

\* a variant of generate_multipart that leaves out the line feed after the
\* content of a part
generate_multipart_short(ranges, separator, max_size, content_type) ==
    generate_multipart_sum(ranges, 43 + Len(separator) + Len(content_type)
                                      + Len(str(max_size)))
    + (5 + Len(separator))

\* content_length as generate_multipart returns it
generate_multipart(ranges, separator, max_size, content_type) ==
    generate_multipart_sum(ranges, 44 + Len(separator) + Len(content_type)
                                      + Len(str(max_size)))
    + (5 + Len(separator))

\* the lambda generate_multipart returns: the headers of one part
generate_headers(separator, max_size, content_type, start, end) ==
    <<"-", "-">> \o separator \o <<"LF">>
    \o <<"C", "o", "n", "t", "e", "n", "t", "-", "T", "y", "p", "e", ":", " ">> \o content_type \o <<"LF">>
    \o <<"C", "o", "n", "t", "e", "n", "t", "-", "R", "a", "n", "g", "e", ":", " ", "b", "y", "t", "e", "s", " ">> \o str(start) \o <<"-">> \o str(end - 1) \o <<"/">> \o str(max_size)
    \o <<"LF">>
    \o <<"LF">>

\* file.read(n) at the offset pos of a file of size bytes
read(pos, n, size) == [i \in 1..Max(0, Min(n, size - pos)) |-> "x"]

\* the first next() on __call__: the headers are set and start_response is
\* called; separator is what random_choices gave
FileResponse_ranges(self, parsed, size, separator) ==
    IF ~self.http_range
    THEN \* handle_all
         [self EXCEPT !.status = IF self.send_header_only \/ size <= 0
                                 THEN "done" ELSE "sending",
                      !.status_code = 200, !.content_length = str(size),
                      !.kind = "all", !.pc = "chunk",
                      !.ranges = <<<<0, size>>>>, !.p = 1, !.here = 0, !.pos = 0]
    ELSE IF parsed.status = "RangeNotSatisfiable"
    THEN [self EXCEPT !.status = "done", !.status_code = 416]
    ELSE IF parsed.status = "MalformedRangeHeader"
    THEN [self EXCEPT !.status = "done", !.status_code = 400]
    ELSE IF Len(parsed.ranges) = 1
    THEN \* handle_single_range
         [self EXCEPT !.status =
                          IF \/ self.send_header_only
                             \/ parsed.ranges[1][1]
                                  >= parsed.ranges[1][2]
                          THEN "done" ELSE "sending",
                      !.status_code = 206,
                      !.content_length =
                          str(parsed.ranges[1][2]
                              - parsed.ranges[1][1]),
                      !.kind = "single", !.pc = "chunk",
                      !.ranges = parsed.ranges,
                      !.p = 1,
                      !.here = parsed.ranges[1][1],
                      !.pos = parsed.ranges[1][1]]
    ELSE \* handle_several_ranges
         [self EXCEPT !.status = IF self.send_header_only THEN "done" ELSE "sending",
                      !.status_code = 206,
                      !.content_length =
                          str(generate_multipart(
                                  parsed.ranges,
                                  separator, size, self.content_type)),
                      !.kind = "several", !.pc = "headers", !.boundary = separator,
                      !.ranges = parsed.ranges,
                      !.p = 1]

\* the first next() on __call__
FileResponse_call(self, range_raw_line, size, separator) ==
    FileResponse_ranges(self, parse_range(range_raw_line, size), size, separator)

\* a later next() on __call__: the generator runs up to its next yield and
\* the chunk yielded is added to the body
FileResponse_next(self, size) ==
    CASE self.pc = "headers" ->
           [self EXCEPT !.body = @ \o generate_headers(self.boundary, size,
                                       self.content_type,
                                       self.ranges[self.p][1], self.ranges[self.p][2]),
                        !.pos = self.ranges[self.p][1],
                        !.here = self.ranges[self.p][1],
                        !.pc = IF self.ranges[self.p][1] < self.ranges[self.p][2]
                               THEN "chunk" ELSE "newline"]
      [] self.pc = "chunk" ->
           [self EXCEPT !.body = @ \o read(self.pos,
                                           IF self.kind = "all" THEN self.chunk_size
                                           ELSE Min(self.chunk_size,
                                                    self.ranges[self.p][2] - self.here),
                                           size),
                        !.pos = @ + Len(read(self.pos,
                                           IF self.kind = "all" THEN self.chunk_size
                                           ELSE Min(self.chunk_size,
                                                    self.ranges[self.p][2] - self.here),
                                           size)),
                        !.here = @ + self.chunk_size,
                        !.pc = IF self.here + self.chunk_size < self.ranges[self.p][2]
                               THEN "chunk"
                               ELSE IF self.kind = "several" THEN "newline" ELSE "end",
                        !.status = IF self.here + self.chunk_size
                                          >= self.ranges[self.p][2]
                                      /\ self.kind # "several"
                                   THEN "done" ELSE @]
      [] self.pc = "newline" ->
           [self EXCEPT !.body = @ \o <<"LF">>,
                        !.p = @ + 1,
                        !.pc = IF self.p < Len(self.ranges) THEN "headers" ELSE "closing"]
      [] self.pc = "closing" ->
           [self EXCEPT !.body = @ \o <<"-", "-">> \o self.boundary \o <<"-", "-", "LF">>,
                        !.pc = "end", !.status = "done"]

\* bound: the longest boundary (random_choices gives 13 characters)
MaxBoundaryLen == 2
\* bound: the longest content type
MaxContentType == 2
\* bound: the largest chunk_size
MaxChunkSize == 2
\* bound: the largest file
MaxFileSize == 11
\* bound: the number of pairs in the Range header of a file request
MaxFileRanges == 2
\* bound: the number of digits of a number in that header
MaxFileDigits == 2

FileResponseInit ==
    /\ NoDecoder
    /\ range_header \in
          [equals : {TRUE}, unit : {"bytes"},
           found : Lists(Strings({0, 1}, MaxFileDigits) \X Strings({0, 1}, MaxFileDigits),
                         MaxFileRanges)]
    /\ file_size \in (MaxFileSize - 2)..MaxFileSize
    /\ range_result = [status |-> "none"]
    /\ response \in [status : {"new"}, send_header_only : BOOLEAN,
                     http_range : BOOLEAN,
                     chunk_size : 1..MaxChunkSize,
                     content_type : {[i \in 1..n |-> "t"] : n \in 1..MaxContentType},
                     status_code : {0}, content_length : {<<>>}, kind : {"none"},
                     pc : {"start"}, boundary : {<<>>}, ranges : {<<>>},
                     p : {0}, here : {0}, pos : {0}, body : {<<>>}]
    /\ response.http_range \/ range_header.found = <<>>
    /\ routed = [status |-> "none"]
    /\ converted = [status |-> "none"]
    /\ headers = [status |-> "none"]
    /\ request = [status |-> "none"]
    /\ NoOther

\* the server's first next() on the iterable __call__ returned
FileResponseCall ==
    /\ response.status = "new"
    /\ \E n \in 1..MaxBoundaryLen :
          response' = FileResponse_call(response, range_header, file_size,
                                        [i \in 1..n |-> "b"])
    /\ UNCHANGED <<decoder_vars, call, range_vars, routed, converted, headers, request, other_vars>>

\* a later next()
FileResponseSend ==
    /\ response.status = "sending"
    /\ response' = FileResponse_next(response, file_size)
    /\ UNCHANGED <<decoder_vars, call, range_vars, routed, converted, headers, request, other_vars>>

FileResponseNext == FileResponseCall \/ FileResponseSend

FileResponseSpec == FileResponseInit /\ [][FileResponseNext]_vars

\* C14: when a response to a request for several ranges has been sent
\* whole, the Content-Length header that generate_multipart computed is the
\* number of bytes of the body: the headers of every part, its content and
\* a line feed, and the closing line.
C14_ContentLength ==
    (response.status = "done" /\ response.kind = "several"
         /\ ~response.send_header_only)
    => response.content_length = str(Len(response.body))

\* two parts were sent, the first positions of one digit and the last of
\* two, their content read in several chunks
C14_Witness ==
    /\ response.status = "done"
    /\ response.kind = "several"
    /\ ~response.send_header_only
    /\ Len(response.ranges) = 2
    /\ response.ranges[2] = <<10, 11>>
    /\ response.ranges[1][2] - response.ranges[1][1] > response.chunk_size
    /\ Len(response.body) > 100

(***************************************************************************)
(* Path convertors (baize/routing.py).  A string is the sequence of its    *)
(* characters.  The strings are short and hold no letter e and no          *)
(* underscore, so a Decimal is never in scientific notation.               *)
(***************************************************************************)
HexDigits ==
    <<"0", "1", "2", "3", "4", "5", "6", "7", "8", "9", "a", "b", "c", "d", "e", "f">>

\* the value of the digit c
hex(c) == CHOOSE n \in 0..15 : HexDigits[n + 1] = c

\* [0-9]
Digits == {HexDigits[n] : n \in 1..10}

\* every character a path or a value is written with
Alphabet == {HexDigits[n] : n \in 1..16} \cup {"/", ".", "-", "x"}

\* the length of the longest run of characters of the set allowed that
\* begins at s[i]
Run(s, i, allowed) ==
    CHOOSE k \in 0..(Len(s) + 1 - Min(i, Len(s) + 1)) :
        /\ \A m \in i..(i + k - 1) : s[m] \in allowed
        /\ (i + k <= Len(s) => s[i + k] \notin allowed)

\* hi, hi - 1, .., lo
Down(hi, lo) == [n \in 1..(hi - lo + 1) |-> hi - n + 1]

\* the positions a match of [0-9]+(.[0-9]+)? that begins at s[i] with at
\* most n digits may end before, in the order the regex engine tries them
RECURSIVE DecimalEnds(_, _, _)
DecimalEnds(s, i, n) ==
    IF n < 1 THEN <<>>
    ELSE (IF i + n <= Len(s)
          THEN Down(i + n + 1 + Run(s, i + n + 1, Digits), i + n + 2)
          ELSE <<>>)
         \o <<i + n>> \o DecimalEnds(s, i, n - 1)

\* s[i..] begins with a match of the groups of digits of the given lengths,
\* a dash between them
RECURSIVE Groups(_, _, _, _)
Groups(s, i, lengths, digits) ==
    IF lengths = <<>> THEN TRUE
    ELSE /\ i + Head(lengths) - 1 <= Len(s)
         /\ \A m \in i..(i + Head(lengths) - 1) : s[m] \in digits
         /\ \/ Len(lengths) = 1
            \/ /\ i + Head(lengths) <= Len(s)
               /\ s[i + Head(lengths)] = "-"
               /\ Groups(s, i + Head(lengths) + 1, Tail(lengths), digits)

\* Convertor.regex: the positions a match of the regex of the convertor that
\* begins at s[i] may end before, in the order the regex engine tries them
regex(convertor, s, i) ==
    CASE convertor = "str" -> Down(i + Run(s, i, Alphabet \ {"/"}), i + 1)
      [] convertor = "int" -> Down(i + Run(s, i, Digits), i + 1)
      [] convertor = "decimal" -> DecimalEnds(s, i, Run(s, i, Digits))
      [] convertor = "uuid" ->
           IF Groups(s, i, <<8, 4, 4, 4, 12>>, {HexDigits[n] : n \in 1..16})
           THEN <<i + 36>> ELSE <<>>
      [] convertor = "date" ->
           IF Groups(s, i, <<4, 2, 2>>, Digits) THEN <<i + 10>> ELSE <<>>
      [] convertor = "any" -> Down(Len(s) + 1, i)

\* int(value) of a string of digits
int_of(value) == int([m \in 1..Len(value) |-> hex(value[m])])

\* s.lstrip(c)
RECURSIVE lstrip(_, _)
lstrip(s, c) == IF s # <<>> /\ Head(s) = c THEN lstrip(Tail(s), c) ELSE s

\* s.rstrip(c)
RECURSIVE rstrip(_, _)
rstrip(s, c) ==
    IF s # <<>> /\ s[Len(s)] = c THEN rstrip(SubSeq(s, 1, Len(s) - 1), c) ELSE s

\* Decimal(value): the digits of the coefficient and the exponent, or
\* InvalidOperation
Decimal(value) ==
    IF Run(value, 1, Digits) = Len(value)
    THEN IF value = <<>> THEN [raise |-> "InvalidOperation"]
         ELSE [raise |-> "", coefficient |-> IF lstrip(value, "0") = <<>> THEN <<"0">>
                                             ELSE lstrip(value, "0"),
               exp |-> 0]
    ELSE IF /\ value[Run(value, 1, Digits) + 1] = "."
            /\ Run(value, Run(value, 1, Digits) + 2, Digits)
                 = Len(value) - Run(value, 1, Digits) - 1
            /\ Len(value) > 1
    THEN [raise |-> "",
          coefficient |->
              IF lstrip(SelectSeq(value, LAMBDA c : c # "."), "0") = <<>> THEN <<"0">>
              ELSE lstrip(SelectSeq(value, LAMBDA c : c # "."), "0"),
          exp |-> -(Len(value) - Run(value, 1, Digits) - 1)]
    ELSE [raise |-> "InvalidOperation"]

\* str(value) of a Decimal whose exponent is not positive
Decimal_str(value) ==
    IF value.exp = 0 THEN value.coefficient
    ELSE IF Len(value.coefficient) + value.exp <= 0
    THEN <<"0", ".">>
         \o [m \in 1..-(Len(value.coefficient) + value.exp) |-> "0"]
         \o value.coefficient
    ELSE SubSeq(value.coefficient, 1, Len(value.coefficient) + value.exp)
         \o <<".">>
         \o SubSeq(value.coefficient, Len(value.coefficient) + value.exp + 1,
                   Len(value.coefficient))

\* the number of days of a month
DaysIn(year, month) ==
    IF month = 2
    THEN (IF year % 4 = 0 /\ (year % 100 # 0 \/ year % 400 = 0) THEN 29 ELSE 28)
    ELSE IF month \in {4, 6, 9, 11} THEN 30 ELSE 31

\* the number n written with at least width digits
zfill(n, width) == [m \in 1..(width - Len(str(n))) |-> "0"] \o str(n)

\* Convertor.to_python(value): the value, or the exception raised
to_python(convertor, value) ==
    CASE convertor \in {"str", "any"} -> [raise |-> "", value |-> value]
      [] convertor = "int" -> [raise |-> "", value |-> int_of(value)]
      [] convertor = "decimal" ->
           IF Decimal(value).raise # "" THEN Decimal(value)
           ELSE [raise |-> "", value |-> Decimal(value)]
      [] convertor = "uuid" ->
           [raise |-> "",
            value |-> [m \in 1..32 |-> hex(SelectSeq(value, LAMBDA c : c # "-")[m])]]
      [] convertor = "date" ->
           IF /\ int_of(SubSeq(value, 1, 4)) \in 1..9999
              /\ int_of(SubSeq(value, 6, 7)) \in 1..12
              /\ int_of(SubSeq(value, 9, 10))
                   \in 1..DaysIn(int_of(SubSeq(value, 1, 4)), int_of(SubSeq(value, 6, 7)))
           THEN [raise |-> "",
                 value |-> <<int_of(SubSeq(value, 1, 4)), int_of(SubSeq(value, 6, 7)),
                             int_of(SubSeq(value, 9, 10))>>]
           ELSE [raise |-> "ValueError"]

\* Convertor.to_string(value): the string, or the exception raised
to_string(convertor, value) ==
    CASE convertor = "str" ->
           IF value = <<>> \/ \E m \in 1..Len(value) : value[m] = "/"
           THEN [raise |-> "ValueError"] ELSE [raise |-> "", value |-> value]
      [] convertor = "any" -> [raise |-> "", value |-> value]
      [] convertor = "int" ->
           IF value < 0 THEN [raise |-> "ValueError"]
           ELSE [raise |-> "", value |-> str(value)]
      [] convertor = "decimal" ->
           [raise |-> "", value |-> rstrip(rstrip(Decimal_str(value), "0"), ".")]
      [] convertor = "uuid" ->
           [raise |-> "",
            value |-> [m \in 1..36 |->
                          IF m \in {9, 14, 19, 24} THEN "-"
                          ELSE HexDigits[value[m - Cardinality({9, 14, 19, 24} \cap 1..m)] + 1]]]
      [] convertor = "date" ->
           [raise |-> "",
            value |-> zfill(value[1], 4) \o <<"-">> \o zfill(value[2], 2)
                      \o <<"-">> \o zfill(value[3], 2)]

\* CONVERTOR_TYPES
CONVERTOR_TYPES == {"str", "int", "decimal", "uuid", "date", "any"}

\* pattern.fullmatch(s) of the regex of a convertor
fullmatch(convertor, s) ==
    \E n \in 1..Len(regex(convertor, s, 1)) : regex(convertor, s, 1)[n] = Len(s) + 1

\* convertor.to_string(convertor.to_python(s)): the string, or the exception
\* raised by either call
round_trip(convertor, s) ==
    IF to_python(convertor, s).raise # "" THEN to_python(convertor, s)
    ELSE to_string(convertor, to_python(convertor, s).value)

\* bound: the longest string converted, dates and UUIDs apart
MaxConvertLen == 4

\* the strings converted: short ones, dates, and UUIDs
ConvertStrings ==
    Strings({"0", "1", "5", ".", "/", "x"}, MaxConvertLen)
    \cup {y \o <<"-">> \o m \o <<"-">> \o d :
             y \in {<<"0", "0", "0", "0">>, <<"2", "0", "2", "0">>,
                    <<"2", "0", "2", "1">>, <<"2", "1", "0", "0">>},
             m \in {<<"0", "0">>, <<"0", "2">>, <<"0", "4">>, <<"1", "3">>},
             d \in {<<"0", "0">>, <<"2", "9">>, <<"3", "0">>, <<"3", "1">>}}
    \cup {[m \in 1..8 |-> a] \o <<"-">> \o [m \in 1..4 |-> b] \o <<"-">>
          \o [m \in 1..4 |-> c] \o <<"-">> \o [m \in 1..4 |-> a] \o <<"-">>
          \o [m \in 1..12 |-> b] : a \in {"0", "9", "f"}, b \in {"0", "a"},
                                   c \in {"4", "e", "x"}}

ConvertorInit ==
    /\ NoDecoder
    /\ NoRange
    /\ response = [status |-> "none"]
    /\ routed = [status |-> "none"]
    /\ converted \in [status : {"new"}, convertor : CONVERTOR_TYPES,
                      s : ConvertStrings]
    /\ headers = [status |-> "none"]
    /\ request = [status |-> "none"]
    /\ NoOther

\* the test of the regex, then to_string(to_python(s)) as test_convertors
\* calls them
Convert ==
    /\ converted.status = "new"
    /\ converted' =
          IF fullmatch(converted.convertor, converted.s)
          THEN [status |-> "converted", convertor |-> converted.convertor,
                s |-> converted.s,
                result |-> round_trip(converted.convertor, converted.s)]
          ELSE [status |-> "rejected", convertor |-> converted.convertor,
                s |-> converted.s]
    /\ UNCHANGED <<decoder_vars, call, range_vars, response, routed, headers, request, other_vars>>

ConvertorSpec == ConvertorInit /\ [][Convert]_vars

\* C16: for every convertor and every string its regex accepts,
\* to_string(to_python(s)) is s, unless a ValueError is raised.
C16_RoundTrip ==
    converted.status = "converted"
    => \/ converted.result.raise = "ValueError"
       \/ /\ converted.result.raise = ""
          /\ converted.result.value = converted.s

(***************************************************************************)
(* Route and Router (baize/routing.py, baize/asgi.py).  The path of a      *)
(* route is the sequence of what compile_path finds in it: characters      *)
(* [lit |-> c], which the compiled pattern matches literally, and          *)
(* parameters [name |-> n, convertor |-> t], compiled to the group         *)
(* (?P<n>regex of t).                                                      *)
(***************************************************************************)
\* re_pattern.fullmatch did not match
NoGroups == [ok |-> FALSE, groups |-> <<>>]

\* the match r of the rest of the pattern after the group, or otherwise the
\* next attempt of the regex engine
Backtrack(r, group, otherwise) ==
    IF r.ok THEN [ok |-> TRUE, groups |-> <<group>> \o r.groups] ELSE otherwise

\* re_pattern matched against path from path[i] on, from the k-th element
\* of the pattern on; re_group tries the ends of the group that is the k-th
\* element in the order of the regex engine
RECURSIVE re_pattern(_, _, _, _), re_group(_, _, _, _, _)
re_pattern(pattern, k, path, i) ==
    IF k > Len(pattern) THEN [ok |-> i = Len(path) + 1, groups |-> <<>>]
    ELSE IF "lit" \in DOMAIN pattern[k]
    THEN IF i <= Len(path) /\ path[i] = pattern[k].lit
         THEN re_pattern(pattern, k + 1, path, i + 1)
         ELSE NoGroups
    ELSE re_group(pattern, k, path, i, regex(pattern[k].convertor, path, i))

re_group(pattern, k, path, i, ends) ==
    IF ends = <<>> THEN NoGroups
    ELSE Backtrack(re_pattern(pattern, k + 1, path, Head(ends)),
                   [name |-> pattern[k].name, convertor |-> pattern[k].convertor,
                    value |-> SubSeq(path, i, Head(ends) - 1)],
                   re_group(pattern, k, path, i, Tail(ends)))

\* Route.matches(path) once the pattern matched with the given groups: the
\* converted parameters, or the exception the first failing to_python raises
matches_groups(groups) ==
    IF \E g \in 1..Len(groups) : to_python(groups[g].convertor, groups[g].value).raise # ""
    THEN [match_up |-> TRUE,
          raise |-> to_python(
              groups[CHOOSE g \in 1..Len(groups) :
                        /\ to_python(groups[g].convertor, groups[g].value).raise # ""
                        /\ \A h \in 1..(g - 1) :
                              to_python(groups[h].convertor, groups[h].value).raise = ""
                    ].convertor,
              groups[CHOOSE g \in 1..Len(groups) :
                        /\ to_python(groups[g].convertor, groups[g].value).raise # ""
                        /\ \A h \in 1..(g - 1) :
                              to_python(groups[h].convertor, groups[h].value).raise = ""
                    ].value).raise,
          path_params |-> <<>>]
    ELSE [match_up |-> TRUE, raise |-> "",
          path_params |-> [g \in 1..Len(groups) |->
                              [name |-> groups[g].name,
                               value |-> to_python(groups[g].convertor,
                                                   groups[g].value).value]]]

\* Route.matches(path)
matches(pattern, path) ==
    IF re_pattern(pattern, 1, path, 1).ok
    THEN matches_groups(re_pattern(pattern, 1, path, 1).groups)
    ELSE [match_up |-> FALSE, raise |-> "", path_params |-> <<>>]

\* Router.__call__ from the n-th route on: the endpoint called and the
\* path_params put in the scope, the 404 response, or the exception raised
RECURSIVE Router_call(_, _, _)
Router_call(route_array, n, path) ==
    IF n > Len(route_array)
    THEN [status |-> "404", endpoint |-> 0, path_params |-> <<>>]
    ELSE IF ~matches(route_array[n], path).match_up
    THEN Router_call(route_array, n + 1, path)
    ELSE IF matches(route_array[n], path).raise # ""
    THEN [status |-> matches(route_array[n], path).raise, endpoint |-> 0,
          path_params |-> <<>>]
    ELSE [status |-> "endpoint", endpoint |-> n,
          path_params |-> matches(route_array[n], path).path_params]

\* bound: the number of routes of a router
MaxRoutes == 3
\* bound: the longest path requested
MaxPathLen == 4

\* the routes "/", "/{n:int}", "/{name}", "/a/{p:any}", "/{d:decimal}",
\* "/{x}/{y:int}" and "/{p:any}"
RoutePaths ==
    {<<[lit |-> "/"]>>,
     <<[lit |-> "/"], [name |-> "n", convertor |-> "int"]>>,
     <<[lit |-> "/"], [name |-> "name", convertor |-> "str"]>>,
     <<[lit |-> "/"], [lit |-> "a"], [lit |-> "/"], [name |-> "p", convertor |-> "any"]>>,
     <<[lit |-> "/"], [name |-> "d", convertor |-> "decimal"]>>,
     <<[lit |-> "/"], [name |-> "x", convertor |-> "str"], [lit |-> "/"],
       [name |-> "y", convertor |-> "int"]>>,
     <<[lit |-> "/"], [name |-> "p", convertor |-> "any"]>>}

RouterInit ==
    /\ NoDecoder
    /\ NoRange
    /\ response = [status |-> "none"]
    /\ routed \in [status : {"new"}, route_array : Lists(RoutePaths, MaxRoutes),
                   path : Strings({"/", "a", "1", "."}, MaxPathLen)]
    /\ converted = [status |-> "none"]
    /\ headers = [status |-> "none"]
    /\ request = [status |-> "none"]
    /\ NoOther

\* Router.__call__(scope, receive, send) with scope["path"] = path
Dispatch ==
    /\ routed.status = "new"
    /\ routed' = [status |-> "done", route_array |-> routed.route_array,
                  path |-> routed.path,
                  result |-> Router_call(routed.route_array, 1, routed.path)]
    /\ UNCHANGED <<decoder_vars, call, range_vars, response, converted, headers, request, other_vars>>

RouterSpec == RouterInit /\ [][Dispatch]_vars

\* the path is the pattern with the parameters replaced, from the k-th
\* element and path[i] on, by strings of the given lengths, each accepted by
\* the regex of its convertor
RECURSIVE Fits(_, _, _, _, _)
Fits(pattern, k, path, i, lengths) ==
    IF k > Len(pattern) THEN i = Len(path) + 1 /\ lengths = <<>>
    ELSE IF "lit" \in DOMAIN pattern[k]
    THEN /\ i <= Len(path)
         /\ path[i] = pattern[k].lit
         /\ Fits(pattern, k + 1, path, i + 1, lengths)
    ELSE /\ lengths # <<>>
         /\ i + Head(lengths) - 1 <= Len(path)
         /\ fullmatch(pattern[k].convertor, SubSeq(path, i, i + Head(lengths) - 1))
         /\ Fits(pattern, k + 1, path, i + Head(lengths), Tail(lengths))

\* the routes of the router whose pattern matches the whole path
Matching ==
    {n \in 1..Len(routed.route_array) :
        \E lengths \in Lists(0..Len(routed.path), 2) :
            Fits(routed.route_array[n], 1, routed.path, 1, lengths)}

\* C15: the router calls the endpoint of the first route, in the order of
\* declaration, whose pattern matches the whole path, with the converted
\* captures as path_params (a str parameter holds no "/"), and answers 404
\* without calling an endpoint when no route matches.
C15_FirstMatch ==
    routed.status = "done" =>
        IF Matching = {} THEN routed.result.status = "404"
        ELSE /\ routed.result.status = "endpoint"
             /\ routed.result.endpoint \in Matching
             /\ \A n \in Matching : routed.result.endpoint <= n
             /\ \E lengths \in Lists(0..Len(routed.path), 2) :
                   /\ Fits(routed.route_array[routed.result.endpoint], 1,
                           routed.path, 1, lengths)
                   /\ Len(lengths) = Len(routed.result.path_params)

(***************************************************************************)
(* Headers and MutableHeaders (baize/datastructures.py).  self.raw is a    *)
(* sequence of pairs <<name, value>>, names and values strings.            *)
(***************************************************************************)
Uppercase ==
    <<"A", "B", "C", "D", "E", "F", "G", "H", "I", "J", "K", "L", "M",
      "N", "O", "P", "Q", "R", "S", "T", "U", "V", "W", "X", "Y", "Z">>
Lowercase ==
    <<"a", "b", "c", "d", "e", "f", "g", "h", "i", "j", "k", "l", "m",
      "n", "o", "p", "q", "r", "s", "t", "u", "v", "w", "x", "y", "z">>

\* the lower-case letter of every upper-case letter, and the reverse
LowerOf == [c \in {Uppercase[u] : u \in 1..26} |->
               Lowercase[CHOOSE u \in 1..26 : Uppercase[u] = c]]
UpperOf == [c \in {Lowercase[u] : u \in 1..26} |->
               Uppercase[CHOOSE u \in 1..26 : Lowercase[u] = c]]

\* str.lower()
lower(key) ==
    [i \in DOMAIN key |-> IF key[i] \in DOMAIN LowerOf THEN LowerOf[key[i]] ELSE key[i]]

\* str.upper()
upper(key) ==
    [i \in DOMAIN key |-> IF key[i] \in DOMAIN UpperOf THEN UpperOf[key[i]] ELSE key[i]]

\* key.replace(old, new) for one-character strings old and new
replace(key, old, new) == [i \in DOMAIN key |-> IF key[i] = old THEN new ELSE key[i]]

\* key.startswith(prefix)
startswith(key, prefix) ==
    Len(key) >= Len(prefix) /\ SubSeq(key, 1, Len(prefix)) = prefix

HTTP_ == <<"H", "T", "T", "P", "_">>
CONTENT_TYPE == <<"C", "O", "N", "T", "E", "N", "T", "_", "T", "Y", "P", "E">>
CONTENT_LENGTH ==
    <<"C", "O", "N", "T", "E", "N", "T", "_", "L", "E", "N", "G", "T", "H">>

\* the items of environ that Headers.__init__ chains: the HTTP_ keys without
\* their prefix, then CONTENT_TYPE and CONTENT_LENGTH
environ_chain(items) ==
    [i \in DOMAIN SelectSeq(items, LAMBDA e : startswith(e[1], HTTP_)) |->
        <<SubSeq(SelectSeq(items, LAMBDA e : startswith(e[1], HTTP_))[i][1], 6,
                 Len(SelectSeq(items, LAMBDA e : startswith(e[1], HTTP_))[i][1])),
          SelectSeq(items, LAMBDA e : startswith(e[1], HTTP_))[i][2]>>]
    \o SelectSeq(items, LAMBDA e : e[1] \in {CONTENT_TYPE, CONTENT_LENGTH})

\* self.raw after Headers.__init__: parameter is the name of the argument
\* given ("headers", "raw", "scope" or "environ"), items its pairs in the
\* order of iteration.  The names and values of a scope are ASCII bytes,
\* which decode("latin-1") maps to the same characters.
Headers_init(parameter, items) ==
    CASE parameter = "headers" -> [i \in DOMAIN items |-> <<lower(items[i][1]), items[i][2]>>]
      [] parameter = "raw" -> items
      [] parameter = "scope" -> [i \in DOMAIN items |-> <<lower(items[i][1]), items[i][2]>>]
      [] parameter = "environ" ->
            [i \in DOMAIN environ_chain(items) |->
                <<replace(lower(environ_chain(items)[i][1]), "_", "-"),
                  environ_chain(items)[i][2]>>]

getlist_case_sensitive(raw, key) ==
    [i \in DOMAIN SelectSeq(raw, LAMBDA e : e[1] = key) |->
        SelectSeq(raw, LAMBDA e : e[1] = key)[i][2]]
\* Headers.getlist(key)
getlist(raw, key) ==
    [i \in DOMAIN SelectSeq(raw, LAMBDA e : e[1] = lower(key)) |->
        SelectSeq(raw, LAMBDA e : e[1] = lower(key))[i][2]]

\* Headers.__getitem__(key)
__getitem__(raw, key) ==
    IF \E i \in DOMAIN raw : raw[i][1] = lower(key)
    THEN [raise |-> "",
          value |-> raw[CHOOSE i \in DOMAIN raw :
                           /\ raw[i][1] = lower(key)
                           /\ \A j \in 1..(i - 1) : raw[j][1] # lower(key)][2]]
    ELSE [raise |-> "KeyError"]

\* Headers.__contains__(key)
__contains__(raw, key) == \E i \in DOMAIN raw : raw[i][1] = lower(key)

\* Headers.get(key, default)
get(raw, key, default) ==
    IF __getitem__(raw, key).raise = "KeyError" THEN default
    ELSE __getitem__(raw, key).value

\* found_indexes of __setitem__ and pop_indexes of __delitem__
found_indexes(raw, key) == {i \in DOMAIN raw : raw[i][1] = lower(key)}

\* self.raw without the entries at the given indexes
del(raw, indexes) ==
    [i \in 1..(Len(raw) - Cardinality(indexes)) |->
        raw[CHOOSE j \in DOMAIN raw \ indexes :
               Cardinality({m \in DOMAIN raw \ indexes : m < j}) = i - 1]]

__setitem___keeping_duplicates(raw, key, value) ==
    IF found_indexes(raw, key) # {}
    THEN [raw EXCEPT ![CHOOSE i \in found_indexes(raw, key) :
                          \A j \in found_indexes(raw, key) : i <= j]
                        = <<lower(key), value>>]
    ELSE raw \o <<<<lower(key), value>>>>
\* self.raw after MutableHeaders.__setitem__(key, value)
__setitem__(raw, key, value) ==
    IF found_indexes(raw, key) # {}
    THEN [del(raw, {i \in found_indexes(raw, key) :
                       \E j \in found_indexes(raw, key) : j < i})
            EXCEPT ![CHOOSE i \in found_indexes(raw, key) :
                        \A j \in found_indexes(raw, key) : i <= j]
                     = <<lower(key), value>>]
    ELSE raw \o <<<<lower(key), value>>>>

\* self.raw after MutableHeaders.__delitem__(key)
__delitem__(raw, key) == del(raw, found_indexes(raw, key))

\* self.raw after MutableHeaders.setdefault(key, value)
setdefault(raw, key, value) ==
    IF \E i \in DOMAIN raw : raw[i][1] = lower(key) THEN raw
    ELSE raw \o <<<<lower(key), value>>>>

\* self.raw after MutableHeaders.update(other), other the items of the dict
RECURSIVE update(_, _)
update(raw, other) ==
    IF other = <<>> THEN raw
    ELSE update(__setitem__(raw, Head(other)[1], Head(other)[2]), Tail(other))

\* self.raw after MutableHeaders.append(key, value)
append(raw, key, value) == raw \o <<<<lower(key), value>>>>

\* bound: the number of pairs a Headers object is built from
MaxHeaders == 3
\* bound: the number of items in an environ and in the dict given to update
MaxHeaderItems == 2
\* bound: the number of calls that change a MutableHeaders object
MaxHeaderCalls == 2

HeaderNames == {<<"a">>, <<"A">>, <<"b">>}
HeaderValues == {<<"1">>, <<"2">>}
EnvironNames ==
    {HTTP_ \o <<"A">>, HTTP_ \o <<"B", "_", "A">>, CONTENT_TYPE,
     <<"P", "A", "T", "H", "_", "I", "N", "F", "O">>}

\* the items of a dict: no key twice
Items(names, n) ==
    {items \in Lists(names \X HeaderValues, n) :
        \A i, j \in DOMAIN items : items[i][1] = items[j][1] => i = j}

HeadersInit ==
    /\ NoDecoder
    /\ NoRange
    /\ response = [status |-> "none"]
    /\ routed = [status |-> "none"]
    /\ converted = [status |-> "none"]
    /\ \E class \in {"Headers", "MutableHeaders"} :
          \/ \E items \in Items(HeaderNames, MaxHeaders) :
                headers = [status |-> "built", class |-> class, calls |-> 0,
                           raw |-> Headers_init("headers", items),
                           last |-> [call |-> "headers"]]
          \/ \E items \in Lists(HeaderNames \X HeaderValues, MaxHeaders) :
                headers = [status |-> "built", class |-> class, calls |-> 0,
                           raw |-> Headers_init("raw", items),
                           last |-> [call |-> "raw"]]
          \/ \E items \in Lists(HeaderNames \X HeaderValues, MaxHeaders) :
                headers = [status |-> "built", class |-> class, calls |-> 0,
                           raw |-> Headers_init("scope", items),
                           last |-> [call |-> "scope"]]
          \/ \E items \in Items(EnvironNames, MaxHeaderItems) :
                headers = [status |-> "built", class |-> class, calls |-> 0,
                           raw |-> Headers_init("environ", items),
                           last |-> [call |-> "environ"]]
    /\ request = [status |-> "none"]
    /\ NoOther

\* a call that changes the MutableHeaders object to the given self.raw
Mutate(raw, last) ==
    /\ headers.class = "MutableHeaders"
    /\ headers.calls < MaxHeaderCalls
    /\ headers' = [headers EXCEPT !.raw = raw, !.calls = @ + 1, !.last = last]
    /\ UNCHANGED <<decoder_vars, call, range_vars, response, routed, converted, request, other_vars>>

SetItem ==
    \E key \in HeaderNames, value \in HeaderValues :
        Mutate(__setitem__(headers.raw, key, value),
               [call |-> "__setitem__", key |-> key, value |-> value,
                raw |-> headers.raw])

DelItem ==
    \E key \in HeaderNames :
        Mutate(__delitem__(headers.raw, key), [call |-> "__delitem__"])

SetDefault ==
    \E key \in HeaderNames, value \in HeaderValues :
        Mutate(setdefault(headers.raw, key, value), [call |-> "setdefault"])

Update ==
    \E other \in Items(HeaderNames, MaxHeaderItems) :
        Mutate(update(headers.raw, other), [call |-> "update"])

AppendHeader ==
    \E key \in HeaderNames, value \in HeaderValues :
        Mutate(append(headers.raw, key, value), [call |-> "append"])

HeadersNext == SetItem \/ DelItem \/ SetDefault \/ Update \/ AppendHeader

HeadersSpec == HeadersInit /\ [][HeadersNext]_vars

\* bound: the number of letters of a name whose case is changed at once
MaxFlips == 2

\* the name with the case of the letters at the given places changed
Flipped(name, places) ==
    [i \in DOMAIN name |->
        IF i \notin places THEN name[i]
        ELSE IF name[i] \in DOMAIN LowerOf THEN LowerOf[name[i]]
        ELSE IF name[i] \in DOMAIN UpperOf THEN UpperOf[name[i]]
        ELSE name[i]]

\* spellings of a name in upper-case and lower-case letters: the name in
\* lower case, in upper case, and with the case of up to MaxFlips of its
\* letters changed, which is every spelling of a name of MaxFlips letters
Variants(name) ==
    {lower(name), upper(name)}
        \cup {Flipped(name, {places[f] : f \in 1..MaxFlips}) :
                 places \in [1..MaxFlips -> DOMAIN name]}

\* C17: however the object was built or changed, the four lookups answer
\* the same for every spelling, in upper-case and lower-case letters, of a
\* stored name.
C17_CaseInsensitive ==
    headers.status = "built" =>
        \A i \in DOMAIN headers.raw :
            \A key \in Variants(headers.raw[i][1]) :
                /\ __contains__(headers.raw, key)
                      = __contains__(headers.raw, headers.raw[i][1])
                /\ __getitem__(headers.raw, key)
                      = __getitem__(headers.raw, headers.raw[i][1])
                /\ get(headers.raw, key, None) = get(headers.raw, headers.raw[i][1], None)
                /\ getlist(headers.raw, key) = getlist(headers.raw, headers.raw[i][1])

\* a changed object in which a name stored twice is found, with both its
\* values, under its upper-case spelling
C17_Witness ==
    /\ headers.status = "built"
    /\ headers.calls > 0
    /\ \E i \in DOMAIN headers.raw :
          /\ upper(headers.raw[i][1]) # headers.raw[i][1]
          /\ __contains__(headers.raw, upper(headers.raw[i][1]))
          /\ Len(getlist(headers.raw, upper(headers.raw[i][1]))) = 2

\* the values joined by a comma and a space
RECURSIVE Joined(_)
Joined(values) ==
    IF values = <<>> THEN <<>>
    ELSE IF Len(values) = 1 THEN values[1]
    ELSE values[1] \o <<",", " ">> \o Joined(Tail(values))

\* C18: all the pairs with one name are kept in the order of insertion:
\* getlist gives every value of the name in that order and h[name] gives
\* them joined by a comma and a space.
C18_JoinedValues ==
    headers.status = "built" =>
        \A i \in DOMAIN headers.raw :
            /\ getlist(headers.raw, headers.raw[i][1])
                  = [j \in DOMAIN SelectSeq(headers.raw,
                                            LAMBDA e : e[1] = lower(headers.raw[i][1])) |->
                        SelectSeq(headers.raw,
                                  LAMBDA e : e[1] = lower(headers.raw[i][1]))[j][2]]
            /\ __contains__(headers.raw, headers.raw[i][1]) =>
                  /\ __getitem__(headers.raw, headers.raw[i][1]).raise = ""
                  /\ __getitem__(headers.raw, headers.raw[i][1]).value
                        = Joined(getlist(headers.raw, headers.raw[i][1]))

\* C19: after __setitem__(key, value) one entry has the name lower(key); it
\* carries the value and stands where the first entry of that name stood,
\* or at the end when there was none; the entries of other names are the
\* same in the same order.
C19_SetItemFrame ==
    (headers.status = "built" /\ headers.last.call = "__setitem__") =>
        /\ Cardinality({i \in DOMAIN headers.raw :
                           headers.raw[i][1] = lower(headers.last.key)}) = 1
        /\ \A i \in DOMAIN headers.raw :
              headers.raw[i][1] = lower(headers.last.key) =>
                  /\ headers.raw[i][2] = headers.last.value
                  /\ IF \E j \in DOMAIN headers.last.raw :
                           headers.last.raw[j][1] = lower(headers.last.key)
                     THEN /\ i \in DOMAIN headers.last.raw
                          /\ headers.last.raw[i][1] = lower(headers.last.key)
                          /\ \A j \in 1..(i - 1) :
                                headers.last.raw[j][1] # lower(headers.last.key)
                     ELSE i = Len(headers.last.raw) + 1 /\ i = Len(headers.raw)
        /\ SelectSeq(headers.raw, LAMBDA e : e[1] # lower(headers.last.key))
              = SelectSeq(headers.last.raw, LAMBDA e : e[1] # lower(headers.last.key))

\* __setitem__ on an object that held the name twice, with an entry of
\* another name between the two
C19_Witness ==
    /\ headers.status = "built"
    /\ headers.last.call = "__setitem__"
    /\ \E i, j, k \in DOMAIN headers.last.raw :
          /\ i < j
          /\ j < k
          /\ headers.last.raw[i][1] = lower(headers.last.key)
          /\ headers.last.raw[j][1] # lower(headers.last.key)
          /\ headers.last.raw[k][1] = lower(headers.last.key)
          /\ headers.last.raw[i][2] # headers.last.value

(***************************************************************************)
(* Request.stream, body, json and form (baize/wsgi/requests.py,            *)
(* baize/asgi/requests.py).  self is the request: its interface, its       *)
(* content type, the chunks its source (wsgi.input, the receive channel)   *)
(* still holds, whether the channel ends in http.disconnect,               *)
(* _stream_consumed, the cached properties in dict, and the number of      *)
(* reads of the source so far.  An access of a property under ASGI is the  *)
(* access and the await of its future.                                     *)
(***************************************************************************)
\* a name that is not in self.__dict__
Absent == [raise |-> "absent", value |-> <<>>]

\* what the chunk of a message adds to the chunks yielded: nothing when
\* the body of the message is empty
Yielded(yielded, message) ==
    IF message.body # <<>> THEN yielded \o <<message.body>> ELSE yielded

RECURSIVE receive_loop_deaf(_, _, _)
receive_loop_deaf(self, whole, yielded) ==
    IF self.input = <<>>
    THEN [self |-> [self EXCEPT !.reads = @ + 1], raise |-> "blocked", value |-> <<>>]
    ELSE IF Head(self.input).type = "http.disconnect"
    THEN receive_loop_deaf([self EXCEPT !.input = Tail(@), !.reads = @ + 1],
                           whole, yielded)
    ELSE IF ~whole /\ Head(self.input).body # <<>>
    THEN [self |-> [self EXCEPT !.input = Tail(@), !.reads = @ + 1],
          raise |-> "", value |-> <<Head(self.input).body>>]
    ELSE IF ~Head(self.input).more_body
    THEN [self |-> [self EXCEPT !.input = Tail(@), !.reads = @ + 1],
          raise |-> "", value |-> Yielded(yielded, Head(self.input)) \o <<<<>>>>]
    ELSE receive_loop_deaf([self EXCEPT !.input = Tail(@), !.reads = @ + 1],
                           whole, Yielded(yielded, Head(self.input)))
\* the while loop of the ASGI stream(), up to the first yield or to its end:
\* every turn awaits self._receive(), which never returns ("blocked") when
\* the channel holds no message; http.disconnect marks the request and
\* raises ClientDisconnect; a message without more_body ends the loop, and
\* the empty chunk is yielded after it
RECURSIVE receive_loop(_, _, _)
receive_loop(self, whole, yielded) ==
    IF self.input = <<>>
    THEN [self |-> [self EXCEPT !.reads = @ + 1], raise |-> "blocked", value |-> <<>>]
    ELSE IF Head(self.input).type = "http.disconnect"
    THEN [self |-> [self EXCEPT !.input = Tail(@), !.reads = @ + 1,
                                !._is_disconnected = TRUE],
          raise |-> "ClientDisconnect", value |-> <<>>]
    ELSE IF ~whole /\ Head(self.input).body # <<>>
    THEN [self |-> [self EXCEPT !.input = Tail(@), !.reads = @ + 1],
          raise |-> "", value |-> <<Head(self.input).body>>]
    ELSE IF ~Head(self.input).more_body
    THEN [self |-> [self EXCEPT !.input = Tail(@), !.reads = @ + 1],
          raise |-> "", value |-> Yielded(yielded, Head(self.input)) \o <<<<>>>>]
    ELSE receive_loop([self EXCEPT !.input = Tail(@), !.reads = @ + 1],
                      whole, Yielded(yielded, Head(self.input)))

\* the first yield of the body of stream() alone, or all of them, when the
\* source is read: _stream_consumed is set and wsgi.input is read until it
\* returns nothing, the channel received from until a message without
\* more_body or http.disconnect
stream_read(self, whole) ==
    IF self.interface = "wsgi"
    THEN IF whole \/ self.input = <<>>
         THEN [self |-> [self EXCEPT !._stream_consumed = TRUE, !.input = <<>>,
                                     !.reads = @ + Len(self.input) + 1],
               raise |-> "", value |-> self.input]
         ELSE [self |-> [self EXCEPT !._stream_consumed = TRUE, !.input = Tail(@),
                                     !.reads = @ + 1],
               raise |-> "", value |-> <<Head(self.input)>>]
    ELSE receive_loop([self EXCEPT !._stream_consumed = TRUE], whole, <<>>)

Request_stream_unchecked(self, whole) ==
    IF self.dict.body # Absent
    THEN IF self.dict.body.raise # ""
         THEN [self |-> self, raise |-> self.dict.body.raise, value |-> <<>>]
         ELSE [self |-> self, raise |-> "",
               value |-> IF whole /\ self.interface = "asgi"
                         THEN <<self.dict.body.value, <<>>>>
                         ELSE <<self.dict.body.value>>]
    ELSE stream_read(self, whole)
\* the iteration of self.stream(), up to its first yield or to its end: the
\* request afterwards, the chunks yielded and the exception raised
Request_stream(self, whole) ==
    IF self.dict.body # Absent
    THEN IF self.dict.body.raise # ""
         THEN [self |-> self, raise |-> self.dict.body.raise, value |-> <<>>]
         ELSE [self |-> self, raise |-> "",
               value |-> IF whole /\ self.interface = "asgi"
                         THEN <<self.dict.body.value, <<>>>>
                         ELSE <<self.dict.body.value>>]
    ELSE IF self._stream_consumed
    THEN [self |-> self, raise |-> "RuntimeError", value |-> <<>>]
    ELSE stream_read(self, whole)

\* cached_property.__get__ once func has run with the outcome r: a value is
\* stored in the __dict__; an exception is stored only under ASGI, where the
\* future it ended is what is stored
cached_property(name, r) ==
    [self |-> IF r.raise = "" \/ r.self.interface = "asgi"
              THEN [r.self EXCEPT !.dict[name] = [raise |-> r.raise, value |-> r.value]]
              ELSE r.self,
     raise |-> r.raise, value |-> r.value]

\* the outcome with the value replaced, when there is one
Returned(r, value) == IF r.raise # "" THEN r ELSE [r EXCEPT !.value = value]

\* self.body
Request_body(self) ==
    IF self.dict.body # Absent
    THEN [self |-> self, raise |-> self.dict.body.raise, value |-> self.dict.body.value]
    ELSE cached_property("body",
             Returned(Request_stream(self, TRUE), Concat(Request_stream(self, TRUE).value)))

\* json.loads of the body: the bodies made of the digit 1 are JSON
json_loads(r) ==
    IF r.raise # "" THEN r
    ELSE IF r.value # <<>> /\ \A i \in DOMAIN r.value : r.value[i] = "1"
    THEN [r EXCEPT !.value = <<"json">> \o r.value]
    ELSE [r EXCEPT !.raise = "JSONDecodeError", !.value = <<>>]

\* self.json
Request_json(self) ==
    IF self.dict.json # Absent
    THEN [self |-> self, raise |-> self.dict.json.raise, value |-> self.dict.json.value]
    ELSE IF self.content_type = "application/json"
    THEN cached_property("json", json_loads(Request_body(self)))
    ELSE cached_property("json", [self |-> self, raise |-> "HTTPException", value |-> <<>>])

\* self.form: FormData of what the chunks of the stream, or the body, hold
Request_form(self) ==
    IF self.dict.form # Absent
    THEN [self |-> self, raise |-> self.dict.form.raise, value |-> self.dict.form.value]
    ELSE IF self.content_type = "multipart/form-data"
    THEN cached_property("form",
             Returned(Request_stream(self, TRUE),
                      <<"FormData">> \o Concat(Request_stream(self, TRUE).value)))
    ELSE IF self.content_type = "application/x-www-form-urlencoded"
    THEN cached_property("form",
             Returned(Request_body(self), <<"FormData">> \o Request_body(self).value))
    ELSE cached_property("form", [self |-> self, raise |-> "HTTPException", value |-> <<>>])

\* self.is_disconnected(): a request not yet marked awaits self._receive()
\* for a moment; the message that comes in that moment, if one does, is
\* taken from the channel and marks the request when it is http.disconnect
Request_is_disconnected(self, timeout) ==
    IF self._is_disconnected THEN [self |-> self, raise |-> "", value |-> TRUE]
    ELSE IF timeout \/ self.input = <<>>
    THEN [self |-> [self EXCEPT !.reads = @ + 1], raise |-> "", value |-> FALSE]
    ELSE [self |-> [self EXCEPT !.input = Tail(@), !.reads = @ + 1,
                                !._is_disconnected
                                    = (Head(self.input).type = "http.disconnect")],
          raise |-> "", value |-> Head(self.input).type = "http.disconnect"]

\* bound: the number of chunks wsgi.input holds
MaxBodyChunks == 2
\* bound: the number of messages the receive channel holds
MaxMessages == 3
\* bound: the number of accesses to a request
MaxRequestCalls == 3

\* the messages of the receive channel
Messages ==
    [type : {"http.request"}, body : {<<>>, <<"1">>, <<"x">>}, more_body : BOOLEAN]
        \cup {[type |-> "http.disconnect"]}

RequestInit ==
    /\ NoDecoder
    /\ NoRange
    /\ response = [status |-> "none"]
    /\ routed = [status |-> "none"]
    /\ converted = [status |-> "none"]
    /\ headers = [status |-> "none"]
    /\ NoOther
    /\ \E interface \in {"wsgi", "asgi"},
          content_type \in {"application/json", "multipart/form-data",
                            "application/x-www-form-urlencoded", "text/plain"} :
          \E input \in IF interface = "wsgi"
                       THEN Lists({<<"1">>, <<"x">>}, MaxBodyChunks)
                       ELSE Lists(Messages, MaxMessages) :
             request = [status |-> "live", calls |-> 0, last |-> [call |-> "__init__"],
                        self |-> [interface |-> interface,
                                  content_type |-> content_type,
                                  input |-> input,
                                  _stream_consumed |-> FALSE,
                                  _is_disconnected |-> FALSE,
                                  dict |-> [body |-> Absent, json |-> Absent,
                                            form |-> Absent],
                                  reads |-> 0]]

\* an access with the outcome r
Access(name, r) ==
    /\ request.status = "live"
    /\ request.calls < MaxRequestCalls
    /\ request.calls > 0 => request.last.raise # "blocked"
    /\ request' = [status |-> "live", self |-> r.self, calls |-> request.calls + 1,
                   last |-> [call |-> name, raise |-> r.raise, value |-> r.value,
                             self |-> request.self]]
    /\ UNCHANGED <<decoder_vars, call, range_vars, response, routed, converted, headers, other_vars>>

\* for chunk in request.stream(): ...
Stream == Access("stream", Request_stream(request.self, TRUE))

\* for chunk in request.stream(): break
StreamBreak == Access("break", Request_stream(request.self, FALSE))

Body == Access("body", Request_body(request.self))

Json == Access("json", Request_json(request.self))

Form == Access("form", Request_form(request.self))

\* await request.is_disconnected()
IsDisconnected ==
    /\ request.self.interface = "asgi"
    /\ \E timeout \in BOOLEAN :
          Access("is_disconnected", Request_is_disconnected(request.self, timeout))

RequestNext == Stream \/ StreamBreak \/ Body \/ Json \/ Form \/ IsDisconnected

RequestSpec == RequestInit /\ [][RequestNext]_vars

\* the body was read and is cached
BodyCached(self) == self.dict.body # Absent /\ self.dict.body.raise = ""

\* the access just made began after the stream had been iterated without
\* the body having been cached
AfterStream ==
    /\ request.status = "live"
    /\ request.calls > 0
    /\ request.last.call \in {"stream", "break", "body", "json", "form"}
    /\ request.last.self._stream_consumed
    /\ ~BodyCached(request.last.self)

\* the access just made was an iteration of stream() with the body cached
AfterBody ==
    /\ request.status = "live"
    /\ request.calls > 0
    /\ BodyCached(request.last.self)
    /\ request.last.call \in {"stream", "break"}

\* the iteration yields the cached body and the source is not read
CachedBodyAgain ==
    /\ request.last.raise = ""
    /\ Concat(request.last.value) = request.last.self.dict.body.value
    /\ request.self.reads = request.last.self.reads

Consumed(self) ==
    IF self.dict.body # Absent THEN self.dict.body.raise ELSE "RuntimeError"

Ends(input, whole) ==
    {i \in DOMAIN input :
        \/ input[i].type = "http.disconnect"
        \/ ~input[i].more_body
        \/ ~whole /\ input[i].body # <<>>}

\* the access just made read the receive channel and the read ended at
\* the message http.disconnect
Disconnected ==
    /\ request.status = "live"
    /\ request.calls > 0
    /\ request.last.call \in {"stream", "break", "body", "json", "form"}
    /\ request.self.reads # request.last.self.reads
    /\ request.self.interface = "asgi"
    /\ \E i \in Ends(request.last.self.input, request.last.call # "break") :
          /\ request.last.self.input[i].type = "http.disconnect"
          /\ \A j \in Ends(request.last.self.input, request.last.call # "break") : i <= j

\* C21: a read of the ASGI request body that meets http.disconnect raises
\* ClientDisconnect at once: receive was called once for every message up to
\* that one and not again, the messages after it stay in the channel, no
\* result is returned, and the request is marked, so that is_disconnected()
\* of a marked request returns True without calling receive.
C21_DisconnectRaises ==
    /\ Disconnected =>
          /\ request.last.raise = "ClientDisconnect"
          /\ request.last.value = <<>>
          /\ request.self._is_disconnected
          /\ \E i \in DOMAIN request.last.self.input :
                /\ request.last.self.input[i].type = "http.disconnect"
                /\ request.self.reads = request.last.self.reads + i
                /\ request.self.input
                      = SubSeq(request.last.self.input, i + 1,
                               Len(request.last.self.input))
          /\ request.last.call = "form" =>
                request.self.dict.form.raise = "ClientDisconnect"
    /\ (/\ request.status = "live"
        /\ request.calls > 0
        /\ request.last.call = "is_disconnected"
        /\ request.last.self._is_disconnected) =>
          /\ request.last.value = TRUE
          /\ request.self.reads = request.last.self.reads

\* a multipart form met http.disconnect after a chunk, with a message left
\* in the channel
C21_Witness ==
    /\ Disconnected
    /\ request.last.call = "form"
    /\ request.self.content_type = "multipart/form-data"
    /\ request.self.reads > request.last.self.reads + 1
    /\ request.last.self.input[1].body # <<>>
    /\ request.self.input # <<>>

(***************************************************************************)
(* WebSocket (baize/asgi/websocket.py).  self holds client_state and       *)
(* application_state, the messages the receive channel will give, the      *)
(* messages passed to the ASGI send, and the number of calls of the ASGI   *)
(* receive.  A message is its type.                                        *)
(***************************************************************************)
\* WebSocketState, in the order of its members
WebSocketState == <<"CONNECTING", "CONNECTED", "DISCONNECTED">>

\* the outcome of a call that leaves the web socket as it is
Raised(self, exception) == [self |-> self, raise |-> exception]

\* WebSocket.receive(): awaiting the channel never returns when it holds no
\* message
WebSocket_receive(self) ==
    IF self.client_state = "DISCONNECTED" THEN Raised(self, "RuntimeError")
    ELSE IF self.input = <<>>
    THEN Raised([self EXCEPT !.reads = @ + 1], "blocked")
    ELSE IF self.client_state = "CONNECTING"
    THEN IF Head(self.input) # "websocket.connect"
         THEN Raised([self EXCEPT !.input = Tail(@), !.reads = @ + 1], "AssertionError")
         ELSE Raised([self EXCEPT !.input = Tail(@), !.reads = @ + 1,
                                  !.client_state = "CONNECTED"], "")
    ELSE IF Head(self.input) \notin {"websocket.receive", "websocket.disconnect"}
    THEN Raised([self EXCEPT !.input = Tail(@), !.reads = @ + 1], "AssertionError")
    ELSE Raised([self EXCEPT !.input = Tail(@), !.reads = @ + 1,
                             !.client_state
                                 = IF Head(self.input) = "websocket.disconnect"
                                   THEN "DISCONNECTED" ELSE @], "")

WebSocket_send_unguarded(self, message) ==
    IF self.application_state = "CONNECTING"
    THEN IF message \notin {"websocket.accept", "websocket.close"}
         THEN Raised(self, "AssertionError")
         ELSE Raised([self EXCEPT !.application_state
                                      = IF message = "websocket.close"
                                        THEN "DISCONNECTED" ELSE "CONNECTED",
                                  !.sent = Append(@, message)], "")
    ELSE IF message \notin {"websocket.send", "websocket.close"}
    THEN Raised(self, "AssertionError")
    ELSE Raised([self EXCEPT !.application_state
                                 = IF message = "websocket.close"
                                   THEN "DISCONNECTED" ELSE @,
                             !.sent = Append(@, message)], "")
\* WebSocket.send(message)
WebSocket_send(self, message) ==
    IF self.application_state = "CONNECTING"
    THEN IF message \notin {"websocket.accept", "websocket.close"}
         THEN Raised(self, "AssertionError")
         ELSE Raised([self EXCEPT !.application_state
                                      = IF message = "websocket.close"
                                        THEN "DISCONNECTED" ELSE "CONNECTED",
                                  !.sent = Append(@, message)], "")
    ELSE IF self.application_state = "CONNECTED"
    THEN IF message \notin {"websocket.send", "websocket.close"}
         THEN Raised(self, "AssertionError")
         ELSE Raised([self EXCEPT !.application_state
                                      = IF message = "websocket.close"
                                        THEN "DISCONNECTED" ELSE @,
                                  !.sent = Append(@, message)], "")
    ELSE Raised(self, "RuntimeError")

\* WebSocket.accept()
WebSocket_accept(self) ==
    IF self.client_state = "CONNECTING"
    THEN IF WebSocket_receive(self).raise # "" THEN WebSocket_receive(self)
         ELSE WebSocket_send(WebSocket_receive(self).self, "websocket.accept")
    ELSE WebSocket_send(self, "websocket.accept")

\* WebSocket.close(code)
WebSocket_close(self) ==
    IF self.application_state # "DISCONNECTED"
    THEN WebSocket_send(self, "websocket.close")
    ELSE Raised(self, "")

\* bound: the number of messages the channel holds after websocket.connect
MaxFrames == 3
\* bound: the number of calls made on a web socket
MaxSocketCalls == 4

WebSocketInit ==
    /\ NoDecoder
    /\ NoRange
    /\ NoApp
    /\ \E frames \in Lists({"websocket.receive", "websocket.disconnect"}, MaxFrames) :
          websocket = [status |-> "open", calls |-> 0, last |-> [call |-> "__init__"],
                       self |-> [client_state |-> "CONNECTING",
                                 application_state |-> "CONNECTING",
                                 input |-> <<"websocket.connect">> \o frames,
                                 sent |-> <<>>, reads |-> 0]]
    /\ subpaths = [status |-> "none"]
    /\ multidict = [status |-> "none"]
    /\ send_event = [status |-> "none"]

\* a call on the web socket with the outcome r
Called(name, r) ==
    /\ websocket.status = "open"
    /\ websocket.calls < MaxSocketCalls
    /\ websocket.calls > 0 => websocket.last.raise # "blocked"
    /\ websocket' = [status |-> "open", calls |-> websocket.calls + 1, self |-> r.self,
                     last |-> [call |-> name, raise |-> r.raise,
                               self |-> websocket.self]]
    /\ UNCHANGED <<decoder_vars, call, range_vars, app_vars,
                   subpaths, multidict, send_event>>

Receive == Called("receive", WebSocket_receive(websocket.self))

\* send with a message of the given type, which is what send_text and
\* send_bytes do with websocket.send
Send ==
    \E message \in {"websocket.accept", "websocket.send", "websocket.close"} :
        Called("send", WebSocket_send(websocket.self, message))

Accept == Called("accept", WebSocket_accept(websocket.self))

Close == Called("close", WebSocket_close(websocket.self))

WebSocketNext == Receive \/ Send \/ Accept \/ Close

WebSocketSpec == WebSocketInit /\ [][WebSocketNext]_vars

\* the place of a state in the order of WebSocketState
Rank(state) == CHOOSE i \in 1..3 : WebSocketState[i] = state

\* C22: no call moves client_state or application_state backwards; receive()
\* after websocket.disconnect was received raises RuntimeError without a
\* call of the ASGI receive; send() after websocket.close was sent raises
\* RuntimeError, and nothing is passed to the ASGI send after a close.
C22_StateTransitions ==
    (websocket.status = "open" /\ websocket.calls > 0) =>
        /\ Rank(websocket.last.self.client_state) <= Rank(websocket.self.client_state)
        /\ Rank(websocket.last.self.application_state)
              <= Rank(websocket.self.application_state)
        /\ (/\ websocket.last.call = "receive"
            /\ websocket.last.self.client_state = "DISCONNECTED") =>
              /\ websocket.last.raise = "RuntimeError"
              /\ websocket.self.reads = websocket.last.self.reads
        /\ (/\ websocket.last.call = "send"
            /\ websocket.last.self.application_state = "DISCONNECTED") =>
              /\ websocket.last.raise = "RuntimeError"
              /\ websocket.self.sent = websocket.last.self.sent
        /\ (/\ websocket.self.client_state = "DISCONNECTED"
            /\ websocket.last.self.client_state # "DISCONNECTED")
              <=> (/\ websocket.last.call = "receive"
                   /\ websocket.last.self.client_state = "CONNECTED"
                   /\ websocket.last.self.input # <<>>
                   /\ Head(websocket.last.self.input) = "websocket.disconnect")
        /\ \A i \in 1..(Len(websocket.self.sent) - 1) :
              websocket.self.sent[i] # "websocket.close"
        /\ (websocket.self.application_state = "DISCONNECTED")
              <=> (\E i \in DOMAIN websocket.self.sent :
                      websocket.self.sent[i] = "websocket.close")

\* send() after close() on an accepted web socket whose client had
\* disconnected
C22_Witness ==
    /\ websocket.status = "open"
    /\ websocket.calls > 0
    /\ websocket.last.call = "send"
    /\ websocket.last.self.application_state = "DISCONNECTED"
    /\ websocket.last.self.sent = <<"websocket.accept", "websocket.close">>
    /\ websocket.last.raise = "RuntimeError"

\* ---------------------------------------------------------------------
\* Server-sent events over WSGI: the response of baize/wsgi/responses.py.
\* The generator returned by __call__ (the consumer, driven by the WSGI
\* server) and send_event (a worker of the thread pool) share the queue
\* and the flag has_more_data.  The iterable yields the events 1..n and
\* then either stops or raises.
\* ---------------------------------------------------------------------

MaxEvents == 3
MaxPings == 2

\* Queue(13)
maxsize == 13

\* b": ping\n\n", told from the events 1..n of the iterable
PING == 0

\* SendEventResponse.__init__
SendEventResponse_init(iterable, raises) ==
    [status |-> "open", iterable |-> iterable, raises |-> raises, taken |-> 0,
     queue |-> <<>>, has_more_data |-> TRUE,
     future |-> "none", keep_alive |-> "none", consumer |-> "start",
     yielded |-> <<>>, pings |-> 0, raised |-> "none"]

SendEventInit ==
    /\ NoDecoder
    /\ NoRange
    /\ NoApp
    /\ websocket = [status |-> "none"]
    /\ subpaths = [status |-> "none"]
    /\ multidict = [status |-> "none"]
    /\ \E n \in 0..MaxEvents, raises \in BOOLEAN :
          send_event = SendEventResponse_init([i \in 1..n |-> i], raises)

\* a step of one of the threads of the response
Step(self) ==
    /\ send_event' = self
    /\ UNCHANGED <<decoder_vars, call, range_vars, app_vars,
                   websocket, subpaths, multidict>>

\* while self.has_more_data or not self.queue.empty()
has_more(self) == self.has_more_data \/ self.queue # <<>>

\* finally: self.has_more_data = False; future.cancel(), which stops
\* send_event only when no worker has begun to run it
finally(self) ==
    [self EXCEPT !.has_more_data = FALSE,
                 !.future = IF @ = "pending" THEN "cancelled" ELSE @,
                 !.consumer = "finished"]

\* what the consumer receives: an event of the iterable or a ping
yield(self, chunk) ==
    IF chunk = PING
    THEN [self EXCEPT !.pings = Min(@ + 1, MaxPings), !.consumer = "test"]
    ELSE [self EXCEPT !.yielded = Append(@, chunk), !.consumer = "test"]

\* __call__ up to the loop: start_response and the submission of send_event
Submit ==
    /\ send_event.status = "open"
    /\ send_event.consumer = "start"
    /\ send_event.keep_alive = "none"
    /\ Step([send_event EXCEPT !.future = "pending", !.consumer = "test"])

\* the test of the loop of __call__: into queue.get, or out through finally
Test ==
    /\ send_event.status = "open"
    /\ send_event.consumer = "test"
    /\ Step(IF has_more(send_event)
            THEN [send_event EXCEPT !.consumer = "get"]
            ELSE finally(send_event))

\* queue.get returns the oldest chunk, which is yielded
Get ==
    /\ send_event.status = "open"
    /\ send_event.consumer = "get"
    /\ send_event.queue # <<>>
    /\ Step(yield([send_event EXCEPT !.queue = Tail(@)], Head(send_event.queue)))

\* queue.get(timeout=self.ping_interval) raises queue.Empty: a ping is
\* yielded
Empty ==
    /\ send_event.status = "open"
    /\ send_event.consumer = "get"
    /\ send_event.keep_alive = "none"
    /\ send_event.queue = <<>>
    /\ Step(yield(send_event, PING))

\* a worker of the pool begins to run send_event
Begin ==
    /\ send_event.status = "open"
    /\ send_event.future = "pending"
    /\ Step([send_event EXCEPT !.future = "running"])

\* send_event: the next chunk of the iterable is put on the queue; put
\* waits while the queue is full
Put ==
    /\ send_event.status = "open"
    /\ send_event.future = "running"
    /\ send_event.taken < Len(send_event.iterable)
    /\ Len(send_event.queue) < maxsize
    /\ Step([send_event EXCEPT
                !.taken = @ + 1,
                !.queue = Append(@, send_event.iterable[send_event.taken + 1])])

\* send_event: the iterable is exhausted, has_more_data = False
Exhausted ==
    /\ send_event.status = "open"
    /\ send_event.future = "running"
    /\ send_event.taken = Len(send_event.iterable)
    /\ ~send_event.raises
    /\ Step([send_event EXCEPT !.has_more_data = FALSE, !.future = "done"])

\* send_event: the iterable raises; the exception ends send_event before
\* its last statement and is kept in the future, whose result nobody asks
\* for
Raises ==
    /\ send_event.status = "open"
    /\ send_event.future = "running"
    /\ send_event.taken = Len(send_event.iterable)
    /\ send_event.raises
    /\ Step([send_event EXCEPT !.future = "failed"])

Consumer == Submit \/ Test \/ Get \/ Empty

Producer == Begin \/ Put \/ Exhausted \/ Raises

SendEventNext == Consumer \/ Producer

SendEventSpec == SendEventInit /\ [][SendEventNext]_vars

\* the WSGI server keeps iterating the body and the pool keeps running its
\* worker
FairSendEventSpec ==
    SendEventSpec /\ WF_vars(Consumer) /\ WF_vars(Producer)

\* C23: when the iterable of events raises while the body is iterated, the
\* exception is raised to the consumer of the body and the iteration ends
C23_ExceptionRaised ==
    (send_event.status = "open" /\ send_event.future = "failed")
        ~> (send_event.status = "open" /\ send_event.raised # "none")

\* C23, the part that holds: the events yielded before the failure are
\* delivered, once each and in order
C23_DeliveredFirst ==
    (send_event.status = "open" /\ send_event.future = "failed")
        ~> (send_event.status = "open" /\ send_event.yielded = send_event.iterable)

\* ---------------------------------------------------------------------
\* The buffer of the decoder across next_event calls (DecoderSpec)
\* ---------------------------------------------------------------------

\* the step was a next_event call (receive_data leaves NoCall in event)
IsNextEvent == event' # NoCall

C24_NeedDataFrame ==
    [][IsNextEvent =>
          /\ event'.type = "NeedData" => parser' = parser
          /\ IsSuffix(parser'.buffer, parser.buffer)]_vars

\* ---------------------------------------------------------------------
\* FileResponse of baize/asgi/responses.py answering a request for a file
\* of file_size bytes over a server without the zero-copy extension, so
\* that the file goes through fake_sendfile.  __call__ is a coroutine and
\* every step of the model runs it up to its next await of send.  The
\* byte at offset i of the file is the number i.  if_range tells whether
\* the request has an If-Range header and what judge_if_range says of it.
\* ---------------------------------------------------------------------

\* the message of send_http_start
send_http_start(status_code) ==
    [type |-> "http.response.start", status |-> status_code]

\* the message of send_http_body
send_http_body(body, more_body) ==
    [type |-> "http.response.body", body |-> body, more_body |-> more_body]

\* count=None; a count n is <<n>>
NoCount == <<>>

\* os.read(file_descriptor, length) at the offset pos
os_read(pos, length, size) ==
    [i \in 1..Max(0, Min(length, size - pos)) |-> pos + i - 1]

\* await send(message): the message is with the server
send(self, message) == [self EXCEPT !.sent = Append(@, message)]

\* the step after the last message of a sendfile call: the call returns to
\* handle_all or handle_single_range, which return, or to the loop of
\* handle_several_ranges
returned(self) ==
    IF self.kind = "several" THEN [self EXCEPT !.pc = "newline"]
    ELSE [self EXCEPT !.pc = "end", !.status = "done"]

\* a variant of fake_sendfile whose last message of a call with a count
\* says more_body=True as the others do
fake_sendfile_unfinished(self, size) ==
    IF self.count = NoCount
    THEN IF Len(os_read(self.pos, self.chunk_size, size)) = self.chunk_size
         THEN send([self EXCEPT !.pos = @ + self.chunk_size],
                   send_http_body(os_read(self.pos, self.chunk_size, size), TRUE))
         ELSE returned(send(self, send_http_body(
                  os_read(self.pos, self.chunk_size, size), self.more_body)))
    ELSE IF Min(self.chunk_size, self.count[1] - self.here) = self.count[1] - self.here
         THEN returned(send(
                  [self EXCEPT !.here = self.count[1]],
                  send_http_body(os_read(self.pos, self.count[1] - self.here, size),
                                 TRUE)))
         ELSE send([self EXCEPT !.here = @ + self.chunk_size,
                                !.pos = @ + self.chunk_size],
                   send_http_body(os_read(self.pos, self.chunk_size, size), TRUE))

\* one turn of the loop of fake_sendfile, up to its await of send: without
\* a count the file is read until a read comes back short, with a count
\* until count bytes were asked for
fake_sendfile(self, size) ==
    IF self.count = NoCount
    THEN IF Len(os_read(self.pos, self.chunk_size, size)) = self.chunk_size
         THEN send([self EXCEPT !.pos = @ + self.chunk_size],
                   send_http_body(os_read(self.pos, self.chunk_size, size), TRUE))
         ELSE returned(send(self, send_http_body(
                  os_read(self.pos, self.chunk_size, size), self.more_body)))
    ELSE IF Min(self.chunk_size, self.count[1] - self.here) = self.count[1] - self.here
         THEN returned(send(
                  [self EXCEPT !.here = self.count[1]],
                  send_http_body(os_read(self.pos, self.count[1] - self.here, size),
                                 self.more_body)))
         ELSE send([self EXCEPT !.here = @ + self.chunk_size,
                                !.pos = @ + self.chunk_size],
                   send_http_body(os_read(self.pos, self.chunk_size, size), TRUE))

\* sendfile(file_descriptor, offset, count, more_body) is called: lseek
sendfile(self, offset, count, more_body) ==
    [self EXCEPT !.pc = "sendfile", !.pos = offset, !.here = 0,
                 !.count = count, !.more_body = more_body]

\* handle_all up to its first await of send
handle_all(self, size) ==
    send(IF self.send_header_only
         THEN [self EXCEPT !.kind = "all", !.pc = "empty"]
         ELSE sendfile([self EXCEPT !.kind = "all"], 0, NoCount, FALSE),
         send_http_start(200))

\* handle_single_range up to its first await of send
handle_single_range(self, start, end) ==
    send(IF self.send_header_only
         THEN [self EXCEPT !.kind = "single", !.ranges = <<<<start, end>>>>,
                           !.pc = "empty"]
         ELSE sendfile([self EXCEPT !.kind = "single",
                                    !.ranges = <<<<start, end>>>>],
                       start, <<end - start>>, FALSE),
         send_http_start(206))

\* handle_several_ranges up to its first await of send
handle_several_ranges(self, ranges) ==
    send([self EXCEPT !.kind = "several", !.ranges = ranges, !.p = 1,
                      !.pc = IF self.send_header_only THEN "empty"
                             ELSE IF ranges = <<>> THEN "closing"
                             ELSE "headers"],
         send_http_start(206))

\* FileResponse.__call__ up to its first await of send
ASGI_FileResponse_call(self, parsed, size) ==
    IF ~self.http_range \/ self.if_range = "stale"
    THEN handle_all(self, size)
    ELSE IF parsed.status = "RangeNotSatisfiable"
    THEN send([self EXCEPT !.kind = "error", !.pc = "empty"], send_http_start(416))
    ELSE IF parsed.status = "MalformedRangeHeader"
    THEN send([self EXCEPT !.kind = "error", !.pc = "empty"], send_http_start(400))
    ELSE IF Len(parsed.ranges) = 1
    THEN handle_single_range(self, parsed.ranges[1][1], parsed.ranges[1][2])
    ELSE handle_several_ranges(self, parsed.ranges)

\* the coroutine runs from one await of send to the next
ASGI_FileResponse_resume(self, size) ==
    CASE self.pc = "empty" ->
           \* send_http_body(send), or the content of the exception
           [send(self, send_http_body(<<>>, FALSE)) EXCEPT
               !.pc = "end", !.status = "done"]
      [] self.pc = "sendfile" -> fake_sendfile(self, size)
      [] self.pc = "headers" ->
           sendfile(send(self, send_http_body(
                        generate_headers(self.boundary, size, self.content_type,
                                         self.ranges[self.p][1],
                                         self.ranges[self.p][2]),
                        TRUE)),
                    self.ranges[self.p][1],
                    <<self.ranges[self.p][2] - self.ranges[self.p][1]>>,
                    TRUE)
      [] self.pc = "newline" ->
           [send(self, send_http_body(<<"LF">>, TRUE)) EXCEPT
               !.p = @ + 1,
               !.pc = IF self.p < Len(self.ranges) THEN "headers" ELSE "closing"]
      [] self.pc = "closing" ->
           [send(self, send_http_body(
                     <<"-", "-">> \o self.boundary \o <<"-", "-", "LF">>, FALSE))
            EXCEPT !.pc = "end", !.status = "done"]

\* bound: the largest file sent over ASGI
MaxSendSize == 4

ASGIFileResponseInit ==
    /\ NoDecoder
    /\ range_header \in
          [equals : {TRUE}, unit : {"bytes"},
           found : Lists(Strings({0, 1}, MaxFileDigits) \X Strings({0, 1}, MaxFileDigits),
                         MaxFileRanges)]
    /\ file_size \in 0..MaxSendSize
    /\ range_result = [status |-> "none"]
    /\ response \in [status : {"new"}, send_header_only : BOOLEAN,
                     http_range : BOOLEAN, if_range : {"", "fresh", "stale"},
                     chunk_size : 1..MaxChunkSize,
                     content_type : {<<"t">>}, boundary : {<<"b">>},
                     kind : {"none"}, pc : {"start"}, ranges : {<<>>},
                     p : {0}, here : {0}, pos : {0}, count : {NoCount},
                     more_body : {FALSE}, sent : {<<>>}]
    /\ response.http_range \/ range_header.found = <<>>
    /\ routed = [status |-> "none"]
    /\ converted = [status |-> "none"]
    /\ headers = [status |-> "none"]
    /\ request = [status |-> "none"]
    /\ NoOther

\* the server calls the response, which runs up to its first send
ASGIFileResponseCall ==
    /\ response.status = "new"
    /\ response' = [ASGI_FileResponse_call(response,
                                           parse_range(range_header, file_size),
                                           file_size)
                    EXCEPT !.status = "sending"]
    /\ UNCHANGED <<decoder_vars, call, range_vars, routed, converted, headers,
                   request, other_vars>>

\* send returned and the response runs up to its next send, or to its end
ASGIFileResponseResume ==
    /\ response.status = "sending"
    /\ response' = ASGI_FileResponse_resume(response, file_size)
    /\ UNCHANGED <<decoder_vars, call, range_vars, routed, converted, headers,
                   request, other_vars>>

ASGIFileResponseNext == ASGIFileResponseCall \/ ASGIFileResponseResume

ASGIFileResponseSpec == ASGIFileResponseInit /\ [][ASGIFileResponseNext]_vars

\* the bodies of the messages from the i-th on, one after the other
RECURSIVE Bodies(_, _)
Bodies(sent, i) ==
    IF i > Len(sent) THEN <<>> ELSE sent[i].body \o Bodies(sent, i + 1)

BaseSubpaths_init(prefix) ==
    prefix = <<>> \/ (Head(prefix) = "/" /\ prefix[Len(prefix)] # "/")

\* the loop of Subpaths.__call__ from the n-th route on: the scope as the
\* endpoint of the first prefix the path starts with receives it, or 404
RECURSIVE Subpaths_call(_, _, _)
Subpaths_call(route_array, n, scope) ==
    IF n > Len(route_array) THEN [status |-> "404", endpoint |-> 0, scope |-> scope]
    ELSE IF ~startswith(scope.path, route_array[n])
    THEN Subpaths_call(route_array, n + 1, scope)
    ELSE [status |-> "endpoint", endpoint |-> n,
          scope |-> [root_path |-> scope.root_path \o route_array[n],
                     path |-> From(scope.path, Len(route_array[n]) + 1)]]

\* bound: the longest prefix and the longest path of a request
MaxPrefixLen == 3
MaxSubpathLen == 4
\* bound: the number of prefixes declared
MaxSubpaths == 2
\* bound: the depth of Subpaths mounted in Subpaths
MaxMounts == 2

SubpathsInit ==
    /\ NoDecoder
    /\ NoRange
    /\ NoApp
    /\ websocket = [status |-> "none"]
    /\ multidict = [status |-> "none"]
    /\ send_event = [status |-> "none"]
    /\ \E route_array \in Lists({prefix \in Strings({"/", "a"}, MaxPrefixLen) :
                                    BaseSubpaths_init(prefix)}, MaxSubpaths),
          path \in {t \in Strings({"/", "a"}, MaxSubpathLen) :
                       t # <<>> /\ Head(t) = "/"} :
              subpaths = [status |-> "open", route_array |-> route_array, calls |-> 0,
                          scope |-> [root_path |-> <<>>, path |-> path],
                          last |-> [status |-> "none"]]

\* the request reaches the Subpaths, from the server or, once rewritten,
\* as the endpoint another Subpaths with the same prefixes called; the
\* path of a request from the server begins with "/"
Mount ==
    /\ subpaths.status = "open"
    /\ subpaths.calls < MaxMounts
    /\ subpaths.calls > 0 => subpaths.last.status = "endpoint"
    /\ subpaths' =
          [subpaths EXCEPT
              !.calls = @ + 1,
              !.scope = Subpaths_call(subpaths.route_array, 1, subpaths.scope).scope,
              !.last = [status |-> Subpaths_call(subpaths.route_array, 1,
                                                 subpaths.scope).status,
                        endpoint |-> Subpaths_call(subpaths.route_array, 1,
                                                   subpaths.scope).endpoint,
                        scope |-> subpaths.scope]]
    /\ UNCHANGED <<decoder_vars, call, range_vars, app_vars,
                   websocket, multidict, send_event>>

SubpathsSpec == SubpathsInit /\ [][Mount]_vars

\* the prefixes the path of the request starts with
Mounted(route_array, path) ==
    {n \in 1..Len(route_array) : startswith(path, route_array[n])}

\* C26: the endpoint called is that of the first prefix p, in the order of
\* declaration, the path starts with (404 when there is none); it receives
\* root_path + p as root_path and the path without its leading p as path,
\* so that the two together are unchanged; and the path it receives is
\* empty or begins with "/".
C26_SegmentBoundaries ==
    (subpaths.status = "open" /\ subpaths.calls > 0) =>
        IF Mounted(subpaths.route_array, subpaths.last.scope.path) = {}
        THEN subpaths.last.status = "404" /\ subpaths.scope = subpaths.last.scope
        ELSE /\ subpaths.last.status = "endpoint"
             /\ subpaths.last.endpoint
                   \in Mounted(subpaths.route_array, subpaths.last.scope.path)
             /\ \A n \in Mounted(subpaths.route_array, subpaths.last.scope.path) :
                   subpaths.last.endpoint <= n
             /\ subpaths.scope.root_path
                   = subpaths.last.scope.root_path
                        \o subpaths.route_array[subpaths.last.endpoint]
             /\ subpaths.route_array[subpaths.last.endpoint] \o subpaths.scope.path
                   = subpaths.last.scope.path
             /\ subpaths.scope.root_path \o subpaths.scope.path
                   = subpaths.last.scope.root_path \o subpaths.last.scope.path
             /\ subpaths.scope.path = <<>> \/ Head(subpaths.scope.path) = "/"

\* C26, the part that holds: everything but the last line
C26_FirstPrefix ==
    (subpaths.status = "open" /\ subpaths.calls > 0) =>
        IF Mounted(subpaths.route_array, subpaths.last.scope.path) = {}
        THEN subpaths.last.status = "404" /\ subpaths.scope = subpaths.last.scope
        ELSE /\ subpaths.last.status = "endpoint"
             /\ \A n \in Mounted(subpaths.route_array, subpaths.last.scope.path) :
                   subpaths.last.endpoint <= n
             /\ subpaths.scope.root_path
                   = subpaths.last.scope.root_path
                        \o subpaths.route_array[subpaths.last.endpoint]
             /\ subpaths.scope.root_path \o subpaths.scope.path
                   = subpaths.last.scope.root_path \o subpaths.last.scope.path

\* ---------------------------------------------------------------------
\* The inner loop of parse_stream (baize/multipart_helper.py): next_event
\* is called, without more data being received, until it returns NeedData
\* or Epilogue or raises.  The decoder starts in any state with any buffer;
\* payload keeps the buffer of the start and fed counts the calls.
\* ---------------------------------------------------------------------

\* bound: the longest buffer the loop starts with
MaxDrainBuffer == 6

\* what ends the loop: the break of parse_stream, or an exception
Breaks(k) == k.type \in {"NeedData", "Epilogue"} \/ IsRaise(k)

DrainInit ==
    /\ parser \in [buffer : Strings(Byte, MaxDrainBuffer), complete : BOOLEAN,
                   state : State]
    /\ event = NoCall
    /\ grammar = "start"
    /\ fields = <<>>
    /\ payload = parser.buffer
    /\ fed = 0
    /\ events = <<>>
    /\ call = NoStream
    /\ NoRange
    /\ NoApp /\ NoOther

\* event = parser.next_event() in the loop
DrainCall ==
    /\ fed > 0 => ~Breaks(event)
    /\ parser' = next_event(parser).self
    /\ event' = Kind(next_event(parser).event)
    /\ fed' = fed + 1
    /\ UNCHANGED <<grammar, fields, payload, events, call, range_vars, app_vars,
                   other_vars>>

DrainSpec == DrainInit /\ [][DrainCall]_vars

dict_keys(d) == {d[i][1] : i \in 1..Len(d)}

\* d[key], for a key of d
dict_getitem(d, key) == d[CHOOSE i \in 1..Len(d) : d[i][1] = key][2]

\* d[key] = value
dict_setitem(d, key, value) ==
    IF key \in dict_keys(d)
    THEN [i \in 1..Len(d) |-> IF d[i][1] = key THEN <<key, value>> ELSE d[i]]
    ELSE Append(d, <<key, value>>)

\* d without key
dict_without(d, key) == SelectSeq(d, LAMBDA item : item[1] # key)

\* d.update(items), also {k: v for k, v in items} from the empty dict
RECURSIVE dict_update(_, _)
dict_update(d, items) ==
    IF items = <<>> THEN d
    ELSE dict_update(dict_setitem(d, Head(items)[1], Head(items)[2]), Tail(items))

\* ImmutableMultiDict.__init__ with a list of pairs
MultiDict_init(items) == [_dict |-> dict_update(<<>>, items), _list |-> items]

\* ImmutableMultiDict.getlist
MultiDict_getlist(self, key) ==
    LET found == SelectSeq(self._list, LAMBDA item : item[1] = key)
    IN  [i \in 1..Len(found) |-> found[i][2]]

\* what a method did: the MultiDict after it and the exception it raised
Did(self, exception) == [self |-> self, raise |-> exception]

\* [(k, v) for k, v in self._list if k != key]
existing_items(self, key) == SelectSeq(self._list, LAMBDA item : item[1] # key)

\* MultiDict.__delitem__
MultiDict_delitem(self, key) ==
    IF key \in dict_keys(self._dict)
    THEN Did([_dict |-> dict_without(self._dict, key),
              _list |-> existing_items(self, key)], "none")
    ELSE Did([self EXCEPT !._list = existing_items(self, key)], "KeyError")

\* MultiDict.pop, which has a default
MultiDict_pop(self, key) ==
    Did([_dict |-> dict_without(self._dict, key),
         _list |-> existing_items(self, key)], "none")

\* MultiDict.popitem
MultiDict_popitem(self) ==
    IF self._dict = <<>> THEN Did(self, "KeyError")
    ELSE Did([_dict |-> SubSeq(self._dict, 1, Len(self._dict) - 1),
              _list |-> existing_items(self, self._dict[Len(self._dict)][1])],
             "none")

\* MultiDict.poplist
MultiDict_poplist(self, key) == MultiDict_pop(self, key)

\* MultiDict.clear
MultiDict_clear(self) == Did([_dict |-> <<>>, _list |-> <<>>], "none")

\* MultiDict.setdefault
MultiDict_setdefault(self, key, default) ==
    IF key \notin dict_keys(self._dict)
    THEN Did([_dict |-> dict_setitem(self._dict, key, default),
              _list |-> Append(self._list, <<key, default>>)], "none")
    ELSE Did(self, "none")

\* MultiDict.setlist
MultiDict_setlist(self, key, values) ==
    IF values = <<>> THEN MultiDict_pop(self, key)
    ELSE Did([_dict |-> dict_setitem(self._dict, key, values[Len(values)]),
              _list |-> existing_items(self, key)
                            \o [i \in 1..Len(values) |-> <<key, values[i]>>]],
             "none")

\* MultiDict.__setitem__
MultiDict_setitem(self, key, value) == MultiDict_setlist(self, key, <<value>>)

\* a variant of append that leaves the dict as it is
MultiDict_append_to_list(self, key, value) ==
    Did([self EXCEPT !._list = Append(@, <<key, value>>)], "none")

\* MultiDict.append
MultiDict_append(self, key, value) ==
    Did([_dict |-> dict_setitem(self._dict, key, value),
         _list |-> Append(self._list, <<key, value>>)], "none")

\* MultiDict.update with a list of pairs: value = MultiDict(items)
MultiDict_update(self, items) ==
    Did([_dict |-> dict_update(self._dict, MultiDict_init(items)._dict),
         _list |-> SelectSeq(self._list,
                             LAMBDA item :
                                 item[1] \notin dict_keys(MultiDict_init(items)._dict))
                       \o items],
        "none")

\* bound: the number of pairs a MultiDict is made of, and of pairs or
\* values handed to update and setlist
MaxPairs == 2
\* bound: the number of calls on a MultiDict
MaxMultiCalls == 3

MultiKeys == {"a", "b"}
MultiValues == {"x", "y"}

MultiDictInit ==
    /\ NoDecoder
    /\ NoRange
    /\ NoApp
    /\ websocket = [status |-> "none"]
    /\ subpaths = [status |-> "none"]
    /\ send_event = [status |-> "none"]
    /\ \E items \in Lists(MultiKeys \X MultiValues, MaxPairs) :
          multidict = [status |-> "open", calls |-> 0, self |-> MultiDict_init(items),
                       last |-> [call |-> "__init__", raise |-> "none"]]

\* a method was called on the MultiDict, with the outcome r
Changed(name, r) ==
    /\ multidict.status = "open"
    /\ multidict.calls < MaxMultiCalls
    /\ multidict' = [status |-> "open", calls |-> multidict.calls + 1,
                     self |-> r.self, last |-> [call |-> name, raise |-> r.raise]]
    /\ UNCHANGED <<decoder_vars, call, range_vars, app_vars,
                   websocket, subpaths, send_event>>

MultiSetItem ==
    \E key \in MultiKeys, value \in MultiValues :
        Changed("__setitem__", MultiDict_setitem(multidict.self, key, value))

MultiDelItem ==
    \E key \in MultiKeys :
        Changed("__delitem__", MultiDict_delitem(multidict.self, key))

MultiPop == \E key \in MultiKeys : Changed("pop", MultiDict_pop(multidict.self, key))

MultiPopItem == Changed("popitem", MultiDict_popitem(multidict.self))

MultiPopList ==
    \E key \in MultiKeys : Changed("poplist", MultiDict_poplist(multidict.self, key))

MultiClear == Changed("clear", MultiDict_clear(multidict.self))

MultiSetDefault ==
    \E key \in MultiKeys, default \in MultiValues \cup {"None"} :
        Changed("setdefault", MultiDict_setdefault(multidict.self, key, default))

MultiSetList ==
    \E key \in MultiKeys, values \in Lists(MultiValues, MaxPairs) :
        Changed("setlist", MultiDict_setlist(multidict.self, key, values))

MultiAppend ==
    \E key \in MultiKeys, value \in MultiValues :
        Changed("append", MultiDict_append(multidict.self, key, value))

MultiUpdate ==
    \E items \in Lists(MultiKeys \X MultiValues, MaxPairs) :
        Changed("update", MultiDict_update(multidict.self, items))

MultiDictNext ==
    \/ MultiSetItem \/ MultiDelItem \/ MultiPop \/ MultiPopItem \/ MultiPopList
    \/ MultiClear \/ MultiSetDefault \/ MultiSetList \/ MultiAppend \/ MultiUpdate

MultiDictSpec == MultiDictInit /\ [][MultiDictNext]_vars

\* C28: after any sequence of the methods that change a MultiDict, the keys
\* of its dict are the keys of the pairs of its list and, for every key, the
\* value in the dict is the value of the last pair of the list with that
\* key: d[k] == d.getlist(k)[-1].
C28_ViewsConsistent ==
    multidict.status = "open" =>
        /\ dict_keys(multidict.self._dict)
              = {multidict.self._list[i][1] : i \in 1..Len(multidict.self._list)}
        /\ \A key \in dict_keys(multidict.self._dict) :
              dict_getitem(multidict.self._dict, key)
                 = MultiDict_getlist(multidict.self, key)
                       [Len(MultiDict_getlist(multidict.self, key))]
        /\ \A i, j \in 1..Len(multidict.self._dict) :
              multidict.self._dict[i][1] = multidict.self._dict[j][1] => i = j

\* a key with several values, the last of which is not the one the dict
\* held before, after an append that followed an update
C28_Witness ==
    /\ multidict.status = "open"
    /\ multidict.calls = 3
    /\ multidict.last.call = "append"
    /\ MultiDict_getlist(multidict.self, "a") = <<"x", "x", "y">>
    /\ MultiDict_getlist(multidict.self, "b") = <<"y">>

\* ---------------------------------------------------------------------
\* The SendEventResponse of baize/wsgi.py, whose pings come from a second
\* worker of the thread pool, keep_alive, and whose consumer waits in
\* queue.get() without a timeout.  send_event is the same code as above;
\* the future that finally cancels is the one of wait_futures, so that
\* neither send_event nor keep_alive is cancelled.
\* ---------------------------------------------------------------------

ThreadedSendEventInit ==
    /\ NoDecoder
    /\ NoRange
    /\ NoApp
    /\ websocket = [status |-> "none"]
    /\ subpaths = [status |-> "none"]
    /\ multidict = [status |-> "none"]
    /\ \E n \in 0..MaxEvents, raises \in BOOLEAN :
          send_event = [SendEventResponse_init([i \in 1..n |-> i], raises)
                        EXCEPT !.keep_alive = "new"]

\* __call__ up to the loop: send_event and keep_alive are submitted
ThreadedSubmit ==
    /\ send_event.status = "open"
    /\ send_event.consumer = "start"
    /\ send_event.keep_alive = "new"
    /\ Step([send_event EXCEPT !.future = "pending", !.keep_alive = "pending",
                               !.consumer = "test"])

\* the test of the loop of __call__: into queue.get(), or out through
\* finally, which sets has_more_data = False
ThreadedTest ==
    /\ send_event.status = "open"
    /\ send_event.consumer = "test"
    /\ send_event.keep_alive # "none"
    /\ Step(IF has_more(send_event)
            THEN [send_event EXCEPT !.consumer = "get"]
            ELSE [send_event EXCEPT !.has_more_data = FALSE,
                                    !.consumer = "finished"])

\* a worker of the pool begins to run keep_alive
KeepAliveBegin ==
    /\ send_event.status = "open"
    /\ send_event.keep_alive = "pending"
    /\ Step([send_event EXCEPT !.keep_alive = "test"])

\* keep_alive: while self.has_more_data
KeepAliveTest ==
    /\ send_event.status = "open"
    /\ send_event.keep_alive = "test"
    /\ Step([send_event EXCEPT
                !.keep_alive = IF send_event.has_more_data THEN "sleep" ELSE "done"])

\* keep_alive: the sleep is over and the ping is put on the queue; put
\* waits while the queue is full
KeepAlivePut ==
    /\ send_event.status = "open"
    /\ send_event.keep_alive = "sleep"
    /\ Len(send_event.queue) < maxsize
    /\ Step([send_event EXCEPT !.queue = Append(@, PING), !.keep_alive = "test"])

ThreadedConsumer == ThreadedSubmit \/ ThreadedTest \/ Get

KeepAlive == KeepAliveBegin \/ KeepAliveTest \/ KeepAlivePut

ThreadedSendEventNext == ThreadedConsumer \/ Producer \/ KeepAlive

ThreadedSendEventSpec == ThreadedSendEventInit /\ [][ThreadedSendEventNext]_vars

\* the WSGI server keeps iterating the body and the pool keeps running its
\* workers
FairThreadedSendEventSpec ==
    /\ ThreadedSendEventSpec
    /\ WF_vars(ThreadedConsumer)
    /\ WF_vars(Producer)
    /\ WF_vars(KeepAlive)

\* C30: once the iterable of events is exhausted, the iteration of the body
\* ends, every event having been yielded once and in order: the consumer
\* does not wait for ever in queue.get().
C30_Terminates ==
    (send_event.status = "open" /\ send_event.future = "done")
        ~> (/\ send_event.status = "open"
            /\ send_event.consumer = "finished"
            /\ send_event.yielded = send_event.iterable)

\* C30 as a property of states: the consumer is never left waiting on an
\* empty queue when send_event and keep_alive have both returned
C30_NeverStranded ==
    ~(/\ send_event.status = "open"
      /\ send_event.consumer = "get"
      /\ send_event.queue = <<>>
      /\ send_event.future = "done"
      /\ send_event.keep_alive = "done")

\* C30, the part that holds: what was yielded is, in order, the first
\* events of the iterable, and all of them when the iteration has ended
\* after send_event returned
C30_InOrder ==
    send_event.status = "open" =>
        /\ IsPrefix(send_event.yielded, send_event.iterable)
        /\ (send_event.consumer = "finished" /\ send_event.future = "done")
           => send_event.yielded = send_event.iterable

\* ---------------------------------------------------------------------
\* The upload files of a form whose assembly fails (FormSpec)
\* ---------------------------------------------------------------------

\* the exceptions that end parse_stream
Failed == {"RequestEntityTooLarge", "MalformedMultipart", "ValueError"}

\* the files file_factory made during the call: those of the items, by
\* their place in items, and the one being written, as 0
Created(c) ==
    {i \in 1..Len(c.items) : ~c.items[i].file.is_none}
        \cup (IF c.file.is_none THEN {} ELSE {0})

\* the files the caller holds: those of the items once parse_stream has
\* returned them; an exception hands the caller nothing
Reachable(c) ==
    IF c.status \in {"returned", "closed"}
    THEN {i \in 1..Len(c.items) : ~c.items[i].file.is_none} ELSE {}

\* the files that were closed: FormData.close() closes those of the form
Closed(c) ==
    IF c.status = "closed"
    THEN {i \in 1..Len(c.items) : ~c.items[i].file.is_none} ELSE {}

====
